---- MODULE Spec2Model ----
(***************************************************************************)
(* Model of neo-go: the oracle response aggregator                        *)
(* (pkg/services/oracle/oracle.go, pkg/services/oracle/request.go), the   *)
(* consensus service and the native contracts as their tests use them.    *)
(*                                                                         *)
(* Spec      the concurrent service: dispatcher loop with its ticker,      *)
(*           request workers, ProcessRequestsInternal, peers' responses,   *)
(*           the incomplete-tx table and the isSent latch.                 *)
(* SpecReq   one pass of processRequest, statement by statement: URL and   *)
(*           scheme, the fetch and its response code, the filter, the      *)
(*           heights of the two transactions.  Heights are HeightBits wide.*)
(* SpecPool  the worker pool: NewOracle's defaults, the workers started by *)
(*           start(), the request channel, Shutdown.  SpecPoolFair adds    *)
(*           the scheduling of the goroutines.                             *)
(* SpecBc    the broadcaster held by the oracle: SetBroadcaster,           *)
(*           getBroadcaster, Shutdown and the goroutines that call Run.    *)
(* SpecCons  the consensus service (unnamed/part_001): OnPayload with the  *)
(*           relay cache, OnTransaction, Start and the event loop.  The    *)
(*           cache and the channels hold CacheCap / ChanCap elements.      *)
(* SpecNative  blocks of transactions that call a native getter or setter  *)
(*           (native_test/common_test.go), executed on a transaction DAO   *)
(*           over a block DAO over the chain.                              *)
(* SpecMgmt  Contract Management: Deploy, Update, Destroy and GetContract  *)
(*           on one DAO (native/management_test.go).                       *)
(* SpecCall  the native contract dispatcher: Call, OnPersist, PostPersist  *)
(*           of one interop context.                                       *)
(* SpecWit   the consensus service at block commit: processBlock and the   *)
(*           two builders of the block witness.                            *)
(* SpecCw    System.Runtime.CheckWitness on one interop context            *)
(*           (native/management_test.go, TestRuntimeCheckWitness).         *)
(* SpecVm    one inter-contract call, System.Contract.Call, of the test    *)
(*           contracts of native/management_test.go, run to its end.       *)
(* SpecDep   the _deploy method of a user contract at contractCreate and   *)
(*           contractUpdate, and the storage it writes.                    *)
(* SpecMs    smartcontract.CreateMultiSigRedeemScript on one key list.     *)
(* SpecLife  the life cycle of the oracle service, statement by statement: *)
(*           concurrent calls of Start and AddRequests, respMtx, the       *)
(*           hand-over of the pending map, the dispatcher loop, the        *)
(*           workers and Shutdown.  SpecLifeFair adds the scheduling.      *)
(* SpecTxx   the miner transactions of the consensus service: s.txx under  *)
(*           getVerifiedTx, broadcast and the OnPayload calls of the peers.*)
(* SpecIdx   the NeoFS node index of processRequest over the attempts of   *)
(*           one request.  Request ids and Go ints are IdBits wide.        *)
(***************************************************************************)
EXTENDS Integers, Sequences, FiniteSets, TLC

(***************************************************************************)
(* Bounds of the model.                                                    *)
(***************************************************************************)
MaxId == 1             \* request ids are 1..MaxId
NumWorkers == 1        \* MainCfg.MaxConcurrentRequests of the modelled service
NumNodes == 2          \* designated oracle nodes
HeightBits == 3        \* width of a block height (uint32 in the code)
MaxCfg == 2            \* configured MainCfg.MaxConcurrentRequests is 0..MaxCfg
MaxBatch == 2          \* requests the dispatcher takes at a time (SpecPool)
MaxInternalCalls == 1  \* calls of ProcessRequestsInternal
MaxBc == 2             \* broadcasters installed by SetBroadcaster (SpecBc)
NumCallers == 2        \* goroutines calling OnPayload / OnTransaction (SpecCons)
NumPayloads == 2       \* payloads of the peers (SpecCons)
CacheCap == 2          \* capacity of the relay cache (cacheMaxCapacity = 100 in the code)
ChanCap == 2           \* capacity of messages and transactions (100 in the code)
NumValidators == 1     \* cfg.Wallet.BLSValidators of a node with a wallet (SpecCons)
MaxBlocks == 2         \* blocks added to the chain (SpecNative)
MaxTxs == 2            \* transactions of one block (SpecNative)
NumSenders == 2        \* senders of deployments (SpecMgmt)
NumScripts == 2        \* scripts, and manifests, of contracts (SpecMgmt)
MaxDeploys == 2        \* successful deployments (SpecMgmt)
MaxUpdates == 2        \* successful updates of one contract (SpecMgmt)
NumNatives == 2        \* registered native contracts, ic.Natives (SpecCall)
NumMethods == 2        \* methods of one native contract (SpecCall)
MaxGas == 2            \* largest gas limit of the VM (SpecCall)
MaxVals == 3           \* validators of the dBFT context (SpecWit)
MaxView == 1           \* largest view number (SpecWit)
MaxOps == 4            \* interop calls on the deployed contract (SpecDep)
MaxKeys == 4           \* public keys of one multi-signature script (SpecMs)
MaxSigs == 3           \* largest m accepted, 1024 in the code (SpecMs)
IdBits == 3            \* width of a request id and of int (64 in the code) (SpecIdx)
MaxNodes == 3          \* MainCfg.NeoFS.Nodes has 0..MaxNodes entries (SpecIdx)
MaxAttempts == 3       \* passes of processRequest for one request (SpecIdx)
NumReqs == 2           \* request ids of the chain (SpecLife)
NumStarters == 2       \* goroutines calling Start (SpecLife)
NumAdders == 2         \* goroutines calling AddRequests (SpecLife)
MaxLoops == 2          \* start() goroutines counted (SpecLife)
NumMinerTxs == 4       \* hashes of miner transactions (SpecTxx)
MaxRounds == 2         \* PrepareRequests this node makes (SpecTxx)

(***************************************************************************)
(* Configuration, in clock units.                                          *)
(***************************************************************************)
RefreshInterval == 1
MaxTaskTimeout == 2

Ids == 1 .. MaxId
Workers == 1 .. NumWorkers
Internal == 0
Procs == {Internal} \cup Workers
NoProc == 0 - 1

OwnKey == 1
OracleNodes == 1 .. NumNodes
Peers == OracleNodes \ {OwnKey}
\* an entry is alive while the table or a goroutine refers to it
Addrs == 1 .. (MaxId + NumWorkers + 1)
Null == 0

SigKinds == {"P", "B"}

VARIABLES
    running,      \* Oracle.running
    pending,      \* Oracle.pending: ids stored before Start
    requestMap,   \* Oracle.requestMap: channel of capacity 1
    requestCh,    \* Oracle.requestCh: channel of capacity MaxConcurrentRequests
    dpc,          \* position of the dispatcher loop of start()
    dq,           \* requests the dispatcher still has to send to requestCh
    responses,    \* Oracle.responses: id -> entry address (Null: absent)
    removed,      \* Oracle.removed
    heap,         \* the incompleteTx objects
    pc,           \* position of each worker and of the internal caller
    req,          \* the request each of them processes
    ent,          \* the entry each of them holds (incTx)
    lastSent,     \* history: the latest call of OnTransaction
    nSent,        \* history: calls of OnTransaction per id, saturating at 2
    icalls,       \* calls of ProcessRequestsInternal so far
    added,        \* ids handed to AddRequests so far
    crashed,      \* a goroutine panicked
    currAccount,  \* Oracle.currAccount is set (FALSE: nil)
    expired,      \* history: ids the ticker dropped for exceeding MaxTaskTimeout
    gone          \* history: ids of the calls of RemoveRequests that returned

\* one pass of processRequest (SpecReq)
VARIABLES
    rpc,            \* position in processRequest
    url,            \* req.Req.URL
    allowed,        \* MainCfg.AllowedContentTypes
    outcome,        \* what the https fetch met
    fetches,        \* calls of Client.Do and neofs.Get
    fetchCode,      \* resp.Code after the scheme switch
    respCode,       \* resp.Code
    filtered,       \* filterRequest was called
    currentHeight,  \* o.Chain.BlockHeight()
    vubInc,         \* MaxValidUntilBlockIncrement
    reqHeight,      \* height the primary transaction counts from
    h,              \* h
    iters,          \* history: iterations of the backup loop, saturating
    tx,             \* the primary response transaction
    backupTx,       \* the backup response transaction
    signed          \* both transactions are signed

\* the worker pool (SpecPool)
VARIABLES
    cfgMax,         \* MainCfg.MaxConcurrentRequests as configured
    maxConc,        \* MainCfg.MaxConcurrentRequests after NewOracle
    chCap,          \* capacity of requestCh
    chLen,          \* requests buffered in requestCh
    ppc,            \* position of start()
    started,        \* workers started so far (i of the loop)
    toSend,         \* requests start() still has to send to requestCh
    closed,         \* o.close is closed
    nSelect,        \* workers waiting in the select
    nProc,          \* workers inside processRequest
    nSpin,          \* workers inside a backup loop that never ends
    spinTick,       \* flips with every iteration of such a loop
    nExited         \* workers that returned

\* the broadcaster (SpecBc)
VARIABLES
    handler,        \* o.ResponseHandler
    bpc,            \* position of the caller of SetBroadcaster
    barg,           \* the broadcaster it installs (b)
    rlocks,         \* readers holding o.mtx
    shpc,           \* position of the caller of Shutdown
    shgot,          \* what getBroadcaster returned to it
    runQ,           \* goroutines started by "go b.Run()" that have not run yet
    nRun,           \* history: calls of Run per broadcaster, saturating at 2
    nShut,          \* history: calls of Shutdown per broadcaster, saturating at 2
    shutUnrun       \* history: broadcasters shut down before Run was called

\* the consensus service (SpecCons)
VARIABLES
    wallet,         \* cfg.Wallet != nil, so s.dbft != nil
    cache,          \* s.cache: the payloads, oldest first
    messages,       \* s.messages
    transactions,   \* s.transactions (how many it holds)
    cpc,            \* position of each caller of OnPayload
    cp,             \* the payload it passes
    loopOn,         \* the event loop runs
    active,         \* dBFT handlers in progress
    lmsg,           \* the payload last handed to OnReceive
    nBcast,         \* history: Broadcast calls of OnPayload per payload since it was last out of the cache
    nOwn,           \* history: payloads of its own the running handler has sent
    panicked        \* a goroutine panicked

\* native getters and setters (SpecNative)
VARIABLES
    chain,          \* the persisted DAO
    index,          \* index of the block being added (of the last block, between blocks)
    inBlock,        \* a block is being added
    nTx,            \* transactions of this block executed so far
    blockDao,       \* the block-scoped DAO
    curTx,          \* the transaction being executed
    txPc,           \* its position
    txDao,          \* the transaction-scoped DAO
    vmFault,        \* the fault of the VM, "" if none
    txRet,          \* the value the call left on the stack
    last,           \* the execution result recorded last in this block
    prevDao,        \* history: the block DAO when the last transaction was opened
    haltNow,        \* history: value of the last halted set of this block, per name
    haltOld         \* history: value of the last halted set of the earlier blocks

\* Contract Management (SpecMgmt)
VARIABLES
    contracts,      \* the stored contract states, by hash
    nextID,         \* the next available id
    lastOp,         \* the call made last, its outcome and, unless rejected, its arguments
    nDeployed,      \* history: successful deployments so far
    destroyed       \* history: hashes destroyed and not deployed again

\* one interop context of the native dispatcher (SpecCall)
VARIABLES
    cVersion,       \* the version on top of the evaluation stack
    cHash,          \* ic.VM.GetCurrentScriptHash(), 0 for a script that is no native
    cIP,            \* ic.VM.Context().IP()
    cFlags,         \* ic.VM.Context().GetCallFlags()
    gasLimit,       \* ic.VM.GasLimit
    gasConsumed,    \* gas consumed by the VM
    callRet,        \* what Call returned, "pending" before
    argsPopped,     \* arguments Call popped for the handler
    handlerRan,     \* m.Func was invoked
    resultPushed,   \* the result was pushed on the stack
    trigger,        \* ic.Trigger
    hookFails,      \* the natives whose persist hook returns an error
    hookLog,        \* the hooks run, in order: <<kind, native>>
    persistRet      \* what OnPersist and PostPersist returned

\* the dBFT context at block commit (SpecWit)
VARIABLES
    wN,             \* len(dctx.Validators); the validators are 0..wN-1 in key order
    wView,          \* dctx.ViewNumber
    wCommits,       \* dctx.CommitPayloads: the view number of each, NoCommit for nil
    wAggOK,         \* crypto.AggregateBLSSignatures will return no error
    wAddOK,         \* Chain.AddBlock will accept the block
    wScript,        \* bb.Script
    wLog,           \* the steps of processBlock, in order
    wPanic,         \* the run-time panic, "" if none
    wClassic        \* what getBlockWitness returned

\* one call of runtime.CheckWitness (SpecCw)
VARIABLES
    cwArg,          \* the argument: [kind, acct], kind "hash", "key" or "bad"
    cwContainer,    \* ic.Container: "tx" or "block"
    cwScope,        \* Scopes of the signer of the transaction
    cwAllowedContracts, \* AllowedContracts of the signer
    cwAllowedGroups,    \* AllowedGroups of the signer
    cwCalling,      \* the calling script hash, NoCaller if there is none
    cwCurrent,      \* the current script hash
    cwFlags,        \* the current context holds AllowStates
    cwResult        \* "pending", then "true", "false" or "error"

\* one inter-contract call (SpecVm)
VARIABLES
    vHash,          \* the hash argument: "callee", "malformed" or "unknown"
    vMethod,        \* the method argument
    vArgs,          \* the arguments: the length of the array, NotArray for no array
    vPerm,          \* the methods of the callee the manifest of the caller permits
    vState,         \* "loaded", "running", "halt" or "fault"
    callerStack,    \* the evaluation stack of the calling context
    calleeStack,    \* the evaluation stack of the called context
    vOps,           \* the instructions of the callee still to run
    vExecuted,      \* instructions of the callee executed
    vRetLen         \* items on the stack of the callee at RET, NoLen before

\* one user contract and its storage (SpecDep)
VARIABLES
    dContract,      \* the contract state: [declares, updates], NoDeployed before creation
    dStorage,       \* the storage item "initial" of the contract, "" if absent
    dCalls,         \* the isUpdate arguments of the _deploy calls, in order
    dLast,          \* the last operation: [op, ok]
    dGot,           \* what the last getValue returned
    dOps            \* operations so far

\* one call of CreateMultiSigRedeemScript (SpecMs)
VARIABLES
    msM,            \* the argument m
    msKeys,         \* the argument publicKeys, keys are numbers
    msRet           \* what the call returned: [err, script]

\* the NeoFS node index (SpecIdx)
VARIABLES
    nfId,           \* req.ID
    nfNodes,        \* len(o.MainCfg.NeoFS.Nodes)
    nfAttempts,     \* incTx.attempts
    nfPc,           \* position of the pass
    nfIndex,        \* the index computed last
    nfPanic         \* the run-time panic of the pass, "" if none

\* the miner transactions of the consensus service (SpecTxx)
VARIABLES
    txx,          \* s.txx: the hashes of the miner transactions, oldest first
    minerTx,      \* transactionHashes[0] of the PrepareRequest being made
    nRounds,      \* history: calls of getVerifiedTx
    txxPanic      \* broadcast dereferenced a nil miner transaction

\* the life cycle of the service (SpecLife); it shares running, pending,
\* requestMap, requestCh, dq, added, pc, req, started and closed
VARIABLES
    respMtx,      \* Oracle.respMtx: "free", or who holds it
    spc,          \* position of each caller of Start
    apc,          \* position of each caller of AddRequests
    areqs,        \* reqs of each caller of AddRequests
    gpc,          \* position of the start() goroutine
    entries,      \* ids that have an entry in o.responses
    handed,       \* history: the maps start() sent to requestMap
    queued,       \* history: ids sent to requestCh with their body
    early,        \* history: ids removed by RemoveRequests before Start
    stored,       \* history: ids AddRequests stored in the pending map
    nLoops        \* history: start() goroutines launched

svcVars == <<running, pending, requestMap, added, currAccount>>
dispVars == <<dpc, dq>>
tblVars == <<responses, removed, heap>>
procVars == <<pc, req, ent>>
histVars == <<lastSent, nSent>>
dropLog == <<expired, gone>>

oracleVars == <<svcVars, dispVars, tblVars, procVars, histVars, dropLog, requestCh, icalls, crashed>>
urlVars == <<url, allowed, outcome, fetches, fetchCode, respCode, filtered>>
heightVars == <<currentHeight, vubInc, reqHeight, h, iters>>
txVars == <<tx, backupTx, signed>>
reqVars == <<rpc, urlVars, heightVars, txVars>>
cfgVars == <<cfgMax, maxConc, chCap>>
workerVars == <<nSelect, nProc, nSpin, spinTick, nExited>>
poolVars == <<cfgVars, workerVars, chLen, ppc, started, toSend, closed>>
bcLog == <<nRun, nShut, shutUnrun>>
bcVars == <<handler, bpc, barg, rlocks, shpc, shgot, runQ, bcLog>>
callerVars == <<cpc, cp>>
loopVars == <<loopOn, active, lmsg>>
consLog == <<nBcast, nOwn>>
consVars == <<wallet, cache, messages, transactions, callerVars, loopVars, consLog, panicked>>
natLog == <<last, prevDao, haltNow, haltOld>>
natVars == <<chain, index, inBlock, nTx, blockDao, curTx, txPc, txDao, vmFault, txRet, natLog>>
mgmtVars == <<contracts, nextID, lastOp, nDeployed, destroyed>>
callVars == <<cVersion, cHash, cIP, cFlags, gasLimit, gasConsumed, callRet, argsPopped,
              handlerRan, resultPushed, trigger, hookFails, hookLog, persistRet>>
witVars == <<wN, wView, wCommits, wAggOK, wAddOK, wScript, wLog, wPanic, wClassic>>
cwVars == <<cwArg, cwContainer, cwScope, cwAllowedContracts, cwAllowedGroups, cwCalling,
            cwCurrent, cwFlags, cwResult>>
vmVars == <<vHash, vMethod, vArgs, vPerm, vState, callerStack, calleeStack, vOps, vExecuted,
            vRetLen>>
depVars == <<dContract, dStorage, dCalls, dLast, dGot, dOps>>
msVars == <<msM, msKeys, msRet>>
txxVars == <<txx, minerTx, nRounds, txxPanic>>
lifeLog == <<handed, queued, early, stored, nLoops>>
lifeVars == <<respMtx, spc, apc, areqs, gpc, entries, lifeLog>>
idxVars == <<nfId, nfNodes, nfAttempts, nfPc, nfIndex, nfPanic>>
extVars == <<bcVars, consVars, natVars, mgmtVars, idxVars, callVars, witVars, cwVars, vmVars, depVars, msVars, lifeVars, txxVars>>
otherVars == <<reqVars, poolVars, extVars>>
notBcVars == <<oracleVars, reqVars, poolVars, consVars, natVars, mgmtVars, idxVars, callVars, witVars, cwVars, vmVars, depVars, msVars, lifeVars, txxVars>>
notConsVars == <<oracleVars, reqVars, poolVars, bcVars, natVars, mgmtVars, idxVars, callVars, witVars, cwVars, vmVars, depVars, msVars, lifeVars, txxVars>>
notNatVars == <<oracleVars, reqVars, poolVars, bcVars, consVars, mgmtVars, idxVars, callVars, witVars, cwVars, vmVars, depVars, msVars, lifeVars, txxVars>>
notMgmtVars == <<oracleVars, reqVars, poolVars, bcVars, consVars, natVars, idxVars, callVars, witVars, cwVars, vmVars, depVars, msVars, lifeVars, txxVars>>
notIdxVars == <<oracleVars, reqVars, poolVars, bcVars, consVars, natVars, mgmtVars, callVars, witVars, cwVars, vmVars, depVars, msVars, lifeVars, txxVars>>
notCallVars == <<oracleVars, reqVars, poolVars, bcVars, consVars, natVars, mgmtVars, idxVars, witVars, cwVars, vmVars, depVars, msVars, lifeVars, txxVars>>
notWitVars == <<oracleVars, reqVars, poolVars, bcVars, consVars, natVars, mgmtVars, idxVars, callVars, cwVars, vmVars, depVars, msVars, lifeVars, txxVars>>
notCwVars == <<oracleVars, reqVars, poolVars, bcVars, consVars, natVars, mgmtVars, idxVars, callVars, witVars, vmVars, depVars, msVars, lifeVars, txxVars>>
notVmVars == <<oracleVars, reqVars, poolVars, bcVars, consVars, natVars, mgmtVars, idxVars, callVars, witVars, cwVars, depVars, msVars, lifeVars, txxVars>>
notDepVars == <<oracleVars, reqVars, poolVars, bcVars, consVars, natVars, mgmtVars, idxVars, callVars, witVars, cwVars, vmVars, msVars, lifeVars, txxVars>>
notMsVars == <<oracleVars, reqVars, poolVars, bcVars, consVars, natVars, mgmtVars, idxVars, callVars, witVars, cwVars, vmVars, depVars, lifeVars, txxVars>>
notTxxVars == <<oracleVars, reqVars, poolVars, bcVars, consVars, natVars, mgmtVars, idxVars, callVars, witVars, cwVars, vmVars, depVars, msVars, lifeVars>>
\* what the life cycle leaves alone
lifeRest == <<currAccount, dpc, tblVars, ent, histVars, dropLog, icalls, crashed, reqVars, cfgVars,
              workerVars, chLen, ppc, toSend, closed, bcVars, consVars, natVars, mgmtVars, idxVars,
              callVars, witVars, cwVars, vmVars, depVars, msVars, txxVars>>

vars == <<oracleVars, reqVars, poolVars, extVars>>

(***************************************************************************)
(* incompleteTx and its methods.                                           *)
(***************************************************************************)
\* Old: an age beyond every timeout; ages above it are not told apart
Old == (IF MaxTaskTimeout > RefreshInterval THEN MaxTaskTimeout ELSE RefreshInterval) + 1

\* age is time.Since(incTx.time); a new entry carries the zero time
NewEntry(id) ==
    [rid |-> id, isSent |-> FALSE, age |-> Old, hasTx |-> FALSE,
     unver |-> [k \in Peers |-> "none"], sigs |-> {}, backupSigs |-> {},
     lock |-> NoProc, latched |-> 0]

FreeEntry == NewEntry(0)

HonestNodeCount(n) == n - ((n - 1) \div 3)

FinalizeTx(e, signers) ==
    e.hasTx /\ Cardinality(signers \cap OracleNodes) >= HonestNodeCount(NumNodes)

\* finalize(oracleNodes, backupOnly): <<candidate, ready>>
Finalize(e, backupOnly) ==
    IF ~backupOnly /\ FinalizeTx(e, e.sigs)
    THEN <<"tx", TRUE>>
    ELSE <<"backupTx", FinalizeTx(e, e.backupSigs)>>

\* reverifyTx: the signatures collected before the candidates existed are
\* verified against them
ReverifyTx(e) ==
    [e EXCEPT !.sigs = @ \cup {k \in Peers : e.unver[k] = "P"},
              !.backupSigs = @ \cup {k \in Peers : e.unver[k] = "B"},
              !.unver = [k \in Peers |-> IF e.unver[k] \in {"P", "B"} THEN "none" ELSE e.unver[k]]]

\* addResponse(pub, sig, isBackup) for a signature that verifies
AddSig(e, k, isBackup) ==
    IF isBackup THEN [e EXCEPT !.backupSigs = @ \cup {k}]
    ELSE [e EXCEPT !.sigs = @ \cup {k}]

\* time.Since(incTx.time)
Since(e) == e.age

(***************************************************************************)
(* Pieces of the handlers.                                                 *)
(***************************************************************************)
LatchNoGuard(ready, isSent) == ready
\* ready = !incTx.isSent; incTx.isSent = true   (processRequest)
Latch(ready, isSent) == ready /\ ~isSent

FailedLatchNoGuard(ready, isSent) == ready
\* ready = !incTx.isSent; incTx.isSent = true   (processFailedRequest)
FailedLatch(ready, isSent) == ready /\ ~isSent

CanLockAlways(e) == TRUE
\* incTx.Lock() returns only when nobody holds the entry
CanLock(e) == e.lock = NoProc

TickDropNever(since) == FALSE
\* since > o.MainCfg.MaxTaskTimeout
TickDrop(since) == since > MaxTaskTimeout

TickReprocessYoung(since) == ~TickDrop(since)
\* else if since > o.MainCfg.RefreshInterval
TickReprocess(since) == ~TickDrop(since) /\ since > RefreshInterval

\* o.sendTx(incTx.tx) of processFailedRequest
RepoolCand == "tx"

Collect(hp, resp, e) ==
    [a \in Addrs |->
        IF (\E id \in Ids : resp[id] = a) \/ (\E p \in Procs : e[p] = a)
        THEN hp[a] ELSE FreeEntry]

FreeAddrs == {a \in Addrs : heap[a].rid = 0}
Present(id) == responses[id] # Null
Entry(id) == heap[responses[id]]

SendRecord(e, cand, by, wasSent) ==
    [id |-> e.rid, cand |-> cand, by |-> by,
     final |-> FinalizeTx(e, IF cand = "tx" THEN e.sigs ELSE e.backupSigs),
     priFinal |-> FinalizeTx(e, e.sigs),
     wasSent |-> wasSent]

NoSend == [id |-> 0, cand |-> "tx", by |-> "none", final |-> FALSE,
           priFinal |-> FALSE, wasSent |-> FALSE]

NoReq == [id |-> 0, body |-> FALSE]

Bump(n) == IF n < 2 THEN n + 1 ELSE n

OracleInit ==
    /\ running = FALSE
    /\ pending = {}
    /\ requestMap = [full |-> FALSE, ids |-> {}]
    /\ requestCh = <<>>
    /\ dpc = "select"
    /\ dq = {}
    /\ responses = [id \in Ids |-> Null]
    /\ removed = {}
    /\ heap = [a \in Addrs |-> FreeEntry]
    /\ pc = [p \in Procs |-> "idle"]
    /\ req = [p \in Procs |-> NoReq]
    /\ ent = [p \in Procs |-> Null]
    /\ lastSent = NoSend
    /\ nSent = [id \in Ids |-> 0]
    /\ icalls = 0
    /\ added = {}
    /\ crashed = FALSE
    /\ currAccount = FALSE
    /\ expired = {} /\ gone = {}

NoOutcome == [err |-> "unset", status |-> 0, hdr |-> "", read |-> "none"]
NoTx == [vub |-> 0 - 1, code |-> "none"]

\* no pass of processRequest is followed
ReqIdle ==
    /\ rpc = "off"
    /\ url = "" /\ allowed = {} /\ outcome = NoOutcome /\ fetches = 0
    /\ fetchCode = "none" /\ respCode = "none" /\ filtered = FALSE
    /\ currentHeight = 0 /\ vubInc = 0 /\ reqHeight = 0 /\ h = 0 /\ iters = 0
    /\ tx = NoTx /\ backupTx = NoTx /\ signed = FALSE

\* the pool is not followed
PoolIdle ==
    /\ cfgMax = 0 /\ maxConc = 0 /\ chCap = 0 /\ chLen = 0
    /\ ppc = "off" /\ started = 0 /\ toSend = 0 /\ closed = FALSE
    /\ nSelect = 0 /\ nProc = 0 /\ nSpin = 0 /\ spinTick = 0 /\ nExited = 0

\* broadcasters: 0 is the one of Config, 1..MaxBc are installed later
Bcs == 0 .. MaxBc
NoBc == 0 - 1

\* the broadcaster is not followed
BcIdle ==
    /\ handler = 0 /\ bpc = "off" /\ barg = NoBc /\ rlocks = 0
    /\ shpc = "off" /\ shgot = NoBc /\ runQ = {}
    /\ nRun = [b \in Bcs |-> 0] /\ nShut = [b \in Bcs |-> 0] /\ shutUnrun = {}

Callers == 1 .. NumCallers
Payloads == 1 .. NumPayloads
\* the payload the node emits itself
OwnPayload == 0
NoPayload == 0 - 1

\* the consensus service is not followed
ConsIdle ==
    /\ wallet = FALSE /\ cache = <<>> /\ messages = <<>> /\ transactions = 0
    /\ cpc = [c \in Callers |-> "off"] /\ cp = [c \in Callers |-> NoPayload]
    /\ loopOn = FALSE /\ active = {} /\ lmsg = NoPayload
    /\ nBcast = [q \in Payloads |-> 0] /\ nOwn = 0 /\ panicked = FALSE

\* the settings testGetSet is run for: an ordinary one and GasPerBlock
Names == {"ExecFeeFactor", "GasPerBlock"}
\* testGetSet(defaultValue, minValue, maxValue), and the values around them
minValue == 1
maxValue == 2
defaultValue == 1
Values == (minValue - 1) .. (maxValue + 1)
NoValue == 0 - 1

\* a stored setting: nxt holds from block index from on, cur before
GenesisDao == [n \in Names |-> [cur |-> defaultValue, nxt |-> defaultValue, from |-> 0]]

NoNativeTx == [kind |-> "none", name |-> "", arg |-> NoValue, committee |-> FALSE, gas |-> FALSE, throws |-> FALSE]
NoResult == [tx |-> NoNativeTx, state |-> "NONE", reason |-> "", ret |-> NoValue]

\* no block is followed
NativeIdle ==
    /\ chain = GenesisDao /\ index = 0 /\ inBlock = FALSE /\ nTx = 0
    /\ blockDao = GenesisDao /\ curTx = NoNativeTx /\ txPc = "off"
    /\ txDao = GenesisDao /\ vmFault = "" /\ txRet = NoValue
    /\ last = NoResult /\ prevDao = GenesisDao
    /\ haltNow = [n \in Names |-> NoValue] /\ haltOld = [n \in Names |-> defaultValue]

Senders == 1 .. NumSenders
Scripts == 1 .. NumScripts
Manifests == 1 .. NumScripts

\* state.CreateContractHash(sender, script): one hash per pair
CreateContractHash(sender, script) == (sender - 1) * NumScripts + script

Hashes == 1 .. (NumSenders * NumScripts + 1)

NoContract == [id |-> 0, counter |-> 0, hash |-> 0, script |-> 0, manifest |-> 0]
NoOp == [op |-> "none", hash |-> 0, ok |-> FALSE, sender |-> 0, script |-> 0, manifest |-> 0]

\* a new DAO: nothing deployed, the first id is 1
MgmtInit ==
    /\ contracts = [g \in Hashes |-> NoContract]
    /\ nextID = 1
    /\ lastOp = NoOp
    /\ nDeployed = 0
    /\ destroyed = {}

NoIndex == 0 - 1
NoScript == [err |-> "pending", script |-> <<>>]

\* no multi-signature script is followed
MinerTxs == 1 .. NumMinerTxs
NoMinerTx == 0 - 1

\* the consensus service holds no miner transaction
TxxIdle ==
    /\ txx = <<>> /\ minerTx = NoMinerTx /\ nRounds = 0 /\ txxPanic = FALSE

Reqs == 1 .. NumReqs
Starters == 1 .. NumStarters
Adders == 1 .. NumAdders

\* NewOracle: nobody holds respMtx and nothing was called yet
LifeIdle ==
    /\ respMtx = "free"
    /\ spc = [c \in Starters |-> "idle"]
    /\ apc = [a \in Adders |-> "idle"] /\ areqs = [a \in Adders |-> {}]
    /\ gpc = "none" /\ entries = {}
    /\ handed = <<>> /\ queued = {} /\ early = {} /\ stored = {} /\ nLoops = 0

MsIdle ==
    /\ msM = 0 /\ msKeys = <<>> /\ msRet = [err |-> "off", script |-> <<>>]
NoDeployed == [declares |-> FALSE, updates |-> 0 - 1]

\* no user contract is followed
DepIdle ==
    /\ dContract = NoDeployed /\ dStorage = "" /\ dCalls = <<>>
    /\ dLast = [op |-> "off", ok |-> FALSE] /\ dGot = "" /\ dOps = 0
NotArray == 0 - 1
NoLen == 0 - 1
NullItem == 0 - 1

\* no inter-contract call is followed
VmIdle ==
    /\ vHash = "unknown" /\ vMethod = "sub" /\ vArgs = NotArray /\ vPerm = {}
    /\ vState = "off" /\ callerStack = <<>> /\ calleeStack = <<>> /\ vOps = <<>>
    /\ vExecuted = 0 /\ vRetLen = NoLen

\* no call of CheckWitness is followed
CwIdle ==
    /\ cwArg = [kind |-> "bad", acct |-> "none"] /\ cwContainer = "block"
    /\ cwScope = "None" /\ cwAllowedContracts = {} /\ cwAllowedGroups = {}
    /\ cwCalling = "none" /\ cwCurrent = "entry" /\ cwFlags = FALSE
    /\ cwResult = "off"
NoCommit == 0 - 1
NoWitness == [kind |-> "none"]
NilWitness == [kind |-> "nil"]

\* no block commit is followed
WitIdle ==
    /\ wN = 1 /\ wView = 0 /\ wCommits = [j \in {0} |-> NoCommit]
    /\ wAggOK = TRUE /\ wAddOK = TRUE
    /\ wScript = NoWitness /\ wLog = <<>> /\ wPanic = "off" /\ wClassic = NoWitness

\* no interop context of the dispatcher is followed
CallIdle ==
    /\ cVersion = 0 /\ cHash = 0 /\ cIP = 0 /\ cFlags = {}
    /\ gasLimit = 0 /\ gasConsumed = 0
    /\ callRet = "off" /\ argsPopped = 0 /\ handlerRan = FALSE /\ resultPushed = FALSE
    /\ trigger = "Application" /\ hookFails = {} /\ hookLog = <<>>
    /\ persistRet = [k \in {"OnPersist", "PostPersist"} |-> "off"]

\* no NeoFS request is followed
IdxIdle ==
    /\ nfId = 0 /\ nfNodes = 1 /\ nfAttempts = 0
    /\ nfPc = "off" /\ nfIndex = NoIndex /\ nfPanic = ""

ExtIdle == BcIdle /\ ConsIdle /\ NativeIdle /\ MgmtInit /\ IdxIdle /\ CallIdle /\ WitIdle /\ CwIdle /\ VmIdle /\ DepIdle /\ MsIdle /\ LifeIdle /\ TxxIdle

Init == OracleInit /\ ReqIdle /\ PoolIdle /\ ExtIdle

(***************************************************************************)
(* Start / start(): the pending map is handed over and running is set,     *)
(* all under respMtx.                                                      *)
(***************************************************************************)
Start ==
    /\ ~crashed /\ ~running
    /\ running' = TRUE
    /\ requestMap' = [full |-> TRUE, ids |-> pending]
    /\ pending' = {}
    /\ UNCHANGED <<otherVars, dropLog>>
    /\ UNCHANGED <<added, currAccount, dispVars, tblVars, procVars, histVars, requestCh, icalls,
                   crashed>>

\* AddRequests(reqs): the chain reports every request id once
AddRequests(S) ==
    /\ ~crashed /\ S # {} /\ S \cap added = {}
    /\ added' = added \cup S
    /\ IF ~running
       THEN /\ pending' = pending \cup S
            /\ UNCHANGED requestMap
       ELSE /\ requestMap' = [full |-> TRUE,
                              ids |-> (IF requestMap.full THEN requestMap.ids ELSE {}) \cup S]
            /\ UNCHANGED pending
    /\ UNCHANGED <<otherVars, dropLog>>
    /\ UNCHANGED <<running, currAccount, dispVars, tblVars, procVars, histVars, requestCh, icalls,
                   crashed>>

\* RemoveRequests(ids)
RemoveRequests(S) ==
    /\ ~crashed /\ S # {} /\ S \subseteq added
    /\ IF ~running
       THEN /\ pending' = pending \ S
            /\ UNCHANGED <<responses, heap>>
       ELSE /\ responses' = [id \in Ids |-> IF id \in S THEN Null ELSE responses[id]]
            /\ heap' = Collect(heap, responses', ent)
            /\ UNCHANGED pending
    /\ gone' = gone \cup S
    /\ UNCHANGED <<otherVars, expired>>
    /\ UNCHANGED <<running, requestMap, added, currAccount, removed, dispVars, procVars, histVars,
                   requestCh, icalls, crashed>>

(***************************************************************************)
(* The dispatcher loop of start().                                         *)
(***************************************************************************)
\* case <-tick.C
Tick ==
    /\ ~crashed /\ running /\ dpc = "select"
    /\ \A id \in Ids : Present(id) => Entry(id).lock = NoProc
    /\ LET drop == {id \in Ids : Present(id) /\ TickDrop(Since(Entry(id)))}
           re == {id \in Ids : Present(id) /\ TickReprocess(Since(Entry(id)))}
       IN /\ removed' = drop
          /\ responses' = [id \in Ids |-> IF id \in drop THEN Null ELSE responses[id]]
          /\ heap' = Collect(heap, responses', ent)
          /\ dq' = {[id |-> id, body |-> FALSE] : id \in re}
          /\ dpc' = IF re = {} THEN "select" ELSE "send"
          /\ expired' = expired \cup drop
    /\ UNCHANGED <<otherVars, gone>>
    /\ UNCHANGED <<svcVars, procVars, histVars, requestCh, icalls, crashed>>

\* case reqs := <-o.requestMap
TakeRequestMap ==
    /\ ~crashed /\ running /\ dpc = "select" /\ requestMap.full
    /\ requestMap' = [full |-> FALSE, ids |-> {}]
    /\ dq' = {[id |-> id, body |-> TRUE] : id \in requestMap.ids}
    /\ dpc' = IF requestMap.ids = {} THEN "select" ELSE "send"
    /\ UNCHANGED <<otherVars, dropLog>>
    /\ UNCHANGED <<running, pending, added, currAccount, tblVars, procVars, histVars, requestCh,
                   icalls, crashed>>

\* o.requestCh <- request{...}: blocks while the channel is full
DispatchSend ==
    /\ ~crashed /\ dpc = "send" /\ Len(requestCh) < NumWorkers
    /\ \E r \in dq :
          /\ requestCh' = Append(requestCh, r)
          /\ dq' = dq \ {r}
          /\ dpc' = IF dq' = {} THEN "select" ELSE "send"
    /\ UNCHANGED <<otherVars, dropLog>>
    /\ UNCHANGED <<svcVars, tblVars, procVars, histVars, icalls, crashed>>

(***************************************************************************)
(* runRequestWorker and ProcessRequestsInternal hand a request to          *)
(* processRequest.                                                         *)
(***************************************************************************)
AccountIsNilNever(acc) == FALSE
\* if acc == nil: o.getAccount() found no oracle account
AccountIsNil(acc) == ~acc

\* getAccount(): the account of this node among the designated oracle nodes,
\* under accMtx
GetAccount == currAccount

\* UpdateOracleNodes(nodes): the account is set when the wallet holds the key
\* of a designated node, and nil otherwise
UpdateOracleNodes(acc) ==
    /\ ~crashed /\ acc # currAccount
    /\ currAccount' = acc
    /\ UNCHANGED <<otherVars, dropLog>>
    /\ UNCHANGED <<running, pending, requestMap, added, dispVars, tblVars, procVars, histVars,
                   requestCh, icalls, crashed>>

\* case req := <-o.requestCh: acc := o.getAccount(); if acc == nil { continue }
Dequeue(w) ==
    /\ ~crashed /\ running /\ pc[w] = "idle" /\ requestCh # <<>>
    /\ requestCh' = Tail(requestCh)
    /\ IF AccountIsNil(GetAccount)
       THEN UNCHANGED <<req, pc>>
       ELSE /\ req' = [req EXCEPT ![w] = Head(requestCh)]
            /\ pc' = [pc EXCEPT ![w] = IF Head(requestCh).body THEN "get" ELSE "fget"]
    /\ UNCHANGED <<otherVars, dropLog>>
    /\ UNCHANGED <<svcVars, dispVars, tblVars, ent, histVars, icalls, crashed>>

\* ProcessRequestsInternal(reqs), one request of the map at a time; without
\* an account it returns at once
InternalCall(id) ==
    /\ ~crashed /\ pc[Internal] = "idle" /\ icalls < MaxInternalCalls
    /\ icalls' = icalls + 1
    /\ IF AccountIsNil(GetAccount)
       THEN UNCHANGED <<req, pc>>
       ELSE /\ req' = [req EXCEPT ![Internal] = [id |-> id, body |-> TRUE]]
            /\ pc' = [pc EXCEPT ![Internal] = "get"]
    /\ UNCHANGED <<otherVars, dropLog>>
    /\ UNCHANGED <<svcVars, dispVars, tblVars, ent, histVars, requestCh, crashed>>

\* return from processRequest
Return(p) ==
    /\ pc' = [pc EXCEPT ![p] = "idle"]
    /\ req' = [req EXCEPT ![p] = NoReq]
    /\ ent' = [ent EXCEPT ![p] = Null]

(***************************************************************************)
(* getResponse(id, create), under respMtx.                                 *)
(***************************************************************************)
GetResponse(p, create, found) ==
    LET id == req[p].id IN
    IF Present(id)
    THEN /\ ent' = [ent EXCEPT ![p] = responses[id]]
         /\ pc' = [pc EXCEPT ![p] = found]
         /\ UNCHANGED <<responses, heap, req>>
    ELSE IF create /\ id \notin removed
    THEN /\ FreeAddrs # {}
         /\ LET a == CHOOSE x \in FreeAddrs : \A y \in FreeAddrs : x <= y IN
              /\ responses' = [responses EXCEPT ![id] = a]
              /\ heap' = [heap EXCEPT ![a] = NewEntry(id)]
              /\ ent' = [ent EXCEPT ![p] = a]
              /\ pc' = [pc EXCEPT ![p] = found]
              /\ UNCHANGED req
    ELSE /\ Return(p)
         /\ UNCHANGED <<responses, heap>>

\* o.sendTx(tx): the call of OnTransaction
SendTx(e, cand, by, wasSent) ==
    /\ lastSent' = SendRecord(e, cand, by, wasSent)
    /\ nSent' = [nSent EXCEPT ![e.rid] = Bump(@)]

(***************************************************************************)
(* processRequest                                                          *)
(***************************************************************************)
ProcessRequestBackupOnlyTrue == TRUE
\* incTx.finalize(o.getOracleNodes(), false)
ProcessRequestBackupOnly == FALSE

\* incTx := o.getResponse(req.ID, true)
Get(p) ==
    /\ ~crashed /\ pc[p] = "get"
    /\ GetResponse(p, TRUE, "fetch")
    /\ UNCHANGED <<otherVars, dropLog>>
    /\ UNCHANGED <<svcVars, dispVars, removed, histVars, requestCh, icalls, crashed>>

\* the fetch, the ledger lookups and CreateResponseTx succeed
Fetch(p) ==
    /\ ~crashed /\ pc[p] = "fetch"
    /\ pc' = [pc EXCEPT ![p] = "lock"]
    /\ UNCHANGED <<otherVars, dropLog>>
    /\ UNCHANGED <<svcVars, dispVars, tblVars, req, ent, histVars, requestCh, icalls, crashed>>

\* GetTransaction or CreateResponseTx returns an error: return err
FetchFail(p) ==
    /\ ~crashed /\ pc[p] = "fetch"
    /\ Return(p)
    /\ heap' = Collect(heap, responses, ent')
    /\ UNCHANGED <<otherVars, dropLog>>
    /\ UNCHANGED <<svcVars, dispVars, responses, removed, histVars, requestCh, icalls, crashed>>

\* incTx.Lock()
Lock(p) ==
    /\ ~crashed /\ pc[p] = "lock"
    /\ CanLock(heap[ent[p]])
    /\ heap' = [heap EXCEPT ![ent[p]].lock = p]
    /\ pc' = [pc EXCEPT ![p] = "crit"]
    /\ UNCHANGED <<otherVars, dropLog>>
    /\ UNCHANGED <<svcVars, dispVars, responses, removed, req, ent, histVars,
                   requestCh, icalls, crashed>>

\* from incTx.request = req.Req to the end: the entry is updated and unlocked,
\* the response is broadcast and the ready transaction is sent
Crit(p) ==
    /\ ~crashed /\ pc[p] = "crit"
    /\ LET e0 == heap[ent[p]]
           e1 == AddSig(AddSig(ReverifyTx([e0 EXCEPT !.hasTx = TRUE]), OwnKey, FALSE),
                        OwnKey, TRUE)
           f == Finalize(e1, ProcessRequestBackupOnly)
           ready == Latch(f[2], e1.isSent)
           e2 == [e1 EXCEPT !.isSent = @ \/ f[2], !.age = 0, !.lock = NoProc,
                            !.latched = IF ready THEN Bump(@) ELSE @]
       IN /\ Return(p)
          /\ heap' = Collect([heap EXCEPT ![ent[p]] = e2], responses, ent')
          /\ IF ready THEN SendTx(e2, f[1], "processRequest", e1.isSent)
             ELSE UNCHANGED histVars
    /\ UNCHANGED <<otherVars, dropLog>>
    /\ UNCHANGED <<svcVars, dispVars, responses, removed, requestCh, icalls, crashed>>

(***************************************************************************)
(* processFailedRequest                                                    *)
(***************************************************************************)
\* incTx.finalize(o.getOracleNodes(), true)
FailedBackupOnly == TRUE

\* incTx := o.getResponse(req.ID, false)
FGet(p) ==
    /\ ~crashed /\ pc[p] = "fget"
    /\ GetResponse(p, FALSE, "fchk")
    /\ UNCHANGED <<otherVars, dropLog>>
    /\ UNCHANGED <<svcVars, dispVars, removed, histVars, requestCh, icalls, crashed>>

\* else if incTx.isSent { o.sendTx(incTx.tx); return }: isSent is read
\* without the entry's lock
FChk(p) ==
    /\ ~crashed /\ pc[p] = "fchk"
    /\ IF heap[ent[p]].isSent
       THEN /\ SendTx(heap[ent[p]], RepoolCand, "repool", TRUE)
            /\ Return(p)
            /\ heap' = Collect(heap, responses, ent')
       ELSE /\ pc' = [pc EXCEPT ![p] = "flock"]
            /\ UNCHANGED <<histVars, req, ent, heap>>
    /\ UNCHANGED <<otherVars, dropLog>>
    /\ UNCHANGED <<svcVars, dispVars, responses, removed, requestCh, icalls, crashed>>

\* incTx.Lock()
FLock(p) ==
    /\ ~crashed /\ pc[p] = "flock"
    /\ CanLock(heap[ent[p]])
    /\ heap' = [heap EXCEPT ![ent[p]].lock = p]
    /\ pc' = [pc EXCEPT ![p] = "fcrit"]
    /\ UNCHANGED <<otherVars, dropLog>>
    /\ UNCHANGED <<svcVars, dispVars, responses, removed, req, ent, histVars,
                   requestCh, icalls, crashed>>

\* from incTx.finalize(..., true) to the end; backupSigs[own] is a nil pointer
\* when this node never signed the backup, and reading its sig panics
FCrit(p) ==
    /\ ~crashed /\ pc[p] = "fcrit"
    /\ LET e0 == heap[ent[p]]
           f == Finalize(e0, FailedBackupOnly)
           ready == FailedLatch(f[2], e0.isSent)
           e2 == [e0 EXCEPT !.isSent = @ \/ f[2], !.age = 0, !.lock = NoProc,
                            !.latched = IF ready THEN Bump(@) ELSE @]
       IN IF OwnKey \notin e0.backupSigs
          THEN /\ crashed' = TRUE
               /\ heap' = [heap EXCEPT ![ent[p]] = [e2 EXCEPT !.lock = p, !.latched = e0.latched]]
               /\ UNCHANGED <<procVars, histVars>>
          ELSE /\ Return(p)
               /\ heap' = Collect([heap EXCEPT ![ent[p]] = e2], responses, ent')
               /\ IF ready THEN SendTx(e2, f[1], "processFailedRequest", e0.isSent)
                  ELSE UNCHANGED histVars
               /\ UNCHANGED crashed
    /\ UNCHANGED <<otherVars, dropLog>>
    /\ UNCHANGED <<svcVars, dispVars, responses, removed, requestCh, icalls>>

(***************************************************************************)
(* AddResponse(pub, reqID, txSig): a peer's signature.  kind says what the *)
(* signature signs: the primary (P) or the backup (B).                     *)
(***************************************************************************)
AddResponse(k, id, kind) ==
    /\ ~crashed /\ running
    /\ ~Present(id) => (id \notin removed /\ FreeAddrs # {})
    /\ LET a == IF Present(id) THEN responses[id]
                ELSE CHOOSE x \in FreeAddrs : \A y \in FreeAddrs : x <= y
           e0 == IF Present(id) THEN heap[a] ELSE NewEntry(id)
           e1 == IF e0.hasTx THEN AddSig(e0, k, kind = "B")
                 ELSE [e0 EXCEPT !.unver[k] = kind]
           f == Finalize(e1, FALSE)
           ready == f[2] /\ ~e1.isSent
           e2 == [e1 EXCEPT !.isSent = @ \/ f[2],
                            !.latched = IF ready THEN Bump(@) ELSE @]
       IN /\ CanLock(e0)
          /\ responses' = [responses EXCEPT ![id] = a]
          /\ heap' = [heap EXCEPT ![a] = e2]
          /\ IF ready THEN SendTx(e2, f[1], "AddResponse", e1.isSent)
             ELSE UNCHANGED histVars
    /\ UNCHANGED <<otherVars, dropLog>>
    /\ UNCHANGED <<svcVars, dispVars, removed, procVars, requestCh, icalls, crashed>>

\* time passes: every entry grows older
Advance ==
    /\ ~crashed
    /\ heap' = [a \in Addrs |->
                  IF heap[a].rid # 0 /\ heap[a].age < Old
                  THEN [heap[a] EXCEPT !.age = @ + 1] ELSE heap[a]]
    /\ UNCHANGED <<otherVars, dropLog>>
    /\ UNCHANGED <<svcVars, dispVars, responses, removed, procVars, histVars,
                   requestCh, icalls, crashed>>

Next ==
    \/ Start
    \/ \E S \in SUBSET Ids : AddRequests(S)
    \/ \E S \in SUBSET Ids : RemoveRequests(S)
    \/ Tick
    \/ TakeRequestMap
    \/ DispatchSend
    \/ \E acc \in BOOLEAN : UpdateOracleNodes(acc)
    \/ \E w \in Workers : Dequeue(w)
    \/ \E id \in Ids : InternalCall(id)
    \/ \E p \in Procs : Get(p)
    \/ \E p \in Procs : Fetch(p)
    \/ \E p \in Procs : FetchFail(p)
    \/ \E p \in Procs : Lock(p)
    \/ \E p \in Procs : Crit(p)
    \/ \E p \in Procs : FGet(p)
    \/ \E p \in Procs : FChk(p)
    \/ \E p \in Procs : FLock(p)
    \/ \E p \in Procs : FCrit(p)
    \/ \E k \in Peers, id \in Ids, kind \in SigKinds : AddResponse(k, id, kind)
    \/ Advance

Spec == Init /\ [][Next]_vars

TypeOK ==
    /\ running \in BOOLEAN
    /\ pending \subseteq Ids
    /\ Len(requestCh) <= NumWorkers
    /\ \A p \in Procs : pc[p] \in {"idle", "get", "fetch", "lock", "crit",
                                    "fget", "fchk", "flock", "fcrit"}
    /\ \A p \in Procs : (pc[p] \in {"idle", "get", "fget"}) <=> (ent[p] = Null)
    /\ \A p \in Procs : ent[p] # Null => heap[ent[p]].rid = req[p].id

(***************************************************************************)
(* Claims about the concurrent service (Spec).                             *)
(***************************************************************************)
LatchPaths == {"processRequest", "processFailedRequest", "AddResponse"}

\* C1 (as stated): for every request id, OnTransaction is invoked at most once
\* with a response transaction for it.
C1_OnTransactionAtMostOnce == \A id \in Ids : nSent[id] <= 1

\* C1 (amended): for every incomplete-tx entry the send guarded by isSent
\* happens at most once, and only while nothing was sent for the entry; every
\* further call of OnTransaction is the re-pool of processFailedRequest for an
\* entry already marked sent.
C1_LatchedSendAtMostOnce ==
    /\ \A a \in Addrs : heap[a].latched <= 1 /\ (heap[a].latched = 1 => heap[a].isSent)
    /\ lastSent.by \in LatchPaths => ~lastSent.wasSent

\* C1 witness: a transaction was sent through the latch and pooled again later
C1_Witness ==
    \E id \in Ids : /\ nSent[id] = 2 /\ lastSent.by = "repool" /\ lastSent.id = id
                    /\ Present(id) /\ Entry(id).latched = 1

\* C2 (as stated): every transaction handed to OnTransaction holds, when it
\* is sent, signatures of at least m distinct designated oracle keys.
C2_SentIsFinalized == lastSent.by # "none" => lastSent.final

InBody(p) == pc[p] \in {"fetch", "lock", "crit", "fchk", "flock", "fcrit"}
InLocked(p) == pc[p] \in {"crit", "fcrit"}

\* C3 (as stated): the body of processRequest / processFailedRequest is
\* executed for one request id by at most one goroutine at a time.
C3_BodyExclusivePerId ==
    \A p, q \in Procs : (p # q /\ InBody(p) /\ InBody(q)) => req[p].id # req[q].id

\* C3 (amended): only the section between incTx.Lock() and incTx.Unlock() is
\* exclusive, and per entry: at most one goroutine at a time is inside it for
\* one incomplete-tx entry, and it is the holder of the entry's lock.
C3_LockedSectionExclusive ==
    /\ \A p, q \in Procs : (p # q /\ InLocked(p) /\ InLocked(q)) => ent[p] # ent[q]
    /\ \A p \in Procs : InLocked(p) => heap[ent[p]].lock = p

\* C3 witness: one goroutine is inside the locked section while another one
\* waits for the lock of the same entry
C3_Witness ==
    \E p, q \in Procs : /\ p # q /\ InLocked(p) /\ pc[q] \in {"lock", "flock"}
                        /\ ent[p] = ent[q]

TickPost(id) ==
    LET age == Entry(id).age
        again == [id |-> id, body |-> FALSE]
    IN /\ age > MaxTaskTimeout =>
            responses'[id] = Null /\ id \in removed' /\ (\A r \in dq' : r.id # id)
       /\ (age > RefreshInterval /\ age <= MaxTaskTimeout) =>
            /\ responses'[id] = responses[id] /\ id \notin removed'
            /\ again \in dq' /\ (\A r \in dq' : r.id = id => r = again)
            /\ heap'[responses[id]] = heap[responses[id]]
       /\ age <= RefreshInterval =>
            /\ responses'[id] = responses[id] /\ id \notin removed'
            /\ (\A r \in dq' : r.id # id)
            /\ heap'[responses[id]] = heap[responses[id]]

\* C5: on every tick an entry older than MaxTaskTimeout is dropped and not
\* re-enqueued, an entry older than RefreshInterval (and not older than
\* MaxTaskTimeout) is re-enqueued once without a body, a younger entry is left
\* alone; a request without a body takes the processFailedRequest path and is
\* never fetched again.
C5_TickPolicy ==
    /\ [][Tick => /\ \A id \in Ids : Present(id) => TickPost(id)
                  /\ \A r \in dq' : Present(r.id)]_vars
    /\ [](\A p \in Procs : (pc[p] # "idle" /\ ~req[p].body) =>
                               pc[p] \in {"fget", "fchk", "flock", "fcrit"})

\* C5 witness: a tick has re-enqueued a request without a body and a worker
\* processes it on the processFailedRequest path
C5_Witness ==
    \E p \in Workers : pc[p] = "fchk" /\ ~req[p].body /\ removed = {}

(***************************************************************************)
(* One pass of processRequest (SpecReq).                                   *)
(***************************************************************************)
Heights == 0 .. (2^HeightBits - 1)

\* h += vubInc on uint32
AddHeight(a, b) == (a + b) % (2^HeightBits)

URLs == {"https://example/x", "HTTPS://example/x", "neofs:cid/oid",
         "http://example/x", "/x", "example/x", ""}

\* url.ParseRequestURI(req.Req.URL): the scheme comes back in lower case; a
\* text that is neither an absolute URI nor an absolute path is an error
ParseRequestURI(s) ==
    CASE s = "https://example/x" -> [err |-> FALSE, scheme |-> "https"]
      [] s = "HTTPS://example/x" -> [err |-> FALSE, scheme |-> "https"]
      [] s = "neofs:cid/oid" -> [err |-> FALSE, scheme |-> "neofs"]
      [] s = "http://example/x" -> [err |-> FALSE, scheme |-> "http"]
      [] s = "/x" -> [err |-> FALSE, scheme |-> ""]
      [] OTHER -> [err |-> TRUE, scheme |-> ""]

SchemeBranchHttp(u) ==
    IF u.scheme \in {"https", "http"} THEN "https"
    ELSE IF u.scheme = "neofs" THEN "neofs" ELSE "default"
\* switch u.Scheme
SchemeBranch(u) ==
    IF u.scheme = "https" THEN "https"
    ELSE IF u.scheme = "neofs" THEN "neofs" ELSE "default"

Hdrs == {"", "application/json", "application/json; charset=utf-8", "text/html"}
AllowLists == {{}, {"application/json"}, {"application/json", "text/plain"}}

\* mime.ParseMediaType(hdr): the media type without its parameters
ParseMediaType(hdr) ==
    CASE hdr = "" -> [err |-> TRUE, typ |-> ""]
      [] hdr = "application/json; charset=utf-8" -> [err |-> FALSE, typ |-> "application/json"]
      [] OTHER -> [err |-> FALSE, typ |-> hdr]

checkMediaType(hdr, allow) ==
    IF allow = {} THEN TRUE
    ELSE LET t == ParseMediaType(hdr) IN
         IF t.err THEN FALSE ELSE t.typ \in allow

Statuses == {200, 204, 403, 404, 408, 500}

\* what an https fetch can meet: http.NewRequest fails, Client.Do fails (on
\* a restricted redirect or otherwise), or a response arrives; readResponse
\* is called for a 200 of an allowed type only
Outcomes ==
    {[err |-> e, status |-> 0, hdr |-> "", read |-> "none"] :
        e \in {"newreq", "redirect", "other"}}
    \cup {[err |-> "none", status |-> st, hdr |-> "", read |-> "none"] :
            st \in Statuses \ {200}}
    \cup {[err |-> "none", status |-> 200, hdr |-> hd, read |-> r] :
            hd \in Hdrs, r \in {"ok", "toolarge", "err"}}

StatusCodeSwapped(o, allow) ==
    CASE o.status = 200 ->
            IF ~checkMediaType(o.hdr, allow) THEN "ContentTypeNotSupported"
            ELSE IF o.read = "ok" THEN "Success"
            ELSE IF o.read = "toolarge" THEN "ResponseTooLarge" ELSE "Error"
      [] o.status = 403 -> "NotFound"
      [] o.status = 404 -> "Forbidden"
      [] o.status = 408 -> "Timeout"
      [] OTHER -> "Error"
\* switch r.StatusCode
StatusCode(o, allow) ==
    CASE o.status = 200 ->
            IF ~checkMediaType(o.hdr, allow) THEN "ContentTypeNotSupported"
            ELSE IF o.read = "ok" THEN "Success"
            ELSE IF o.read = "toolarge" THEN "ResponseTooLarge" ELSE "Error"
      [] o.status = 403 -> "Forbidden"
      [] o.status = 404 -> "NotFound"
      [] o.status = 408 -> "Timeout"
      [] OTHER -> "Error"

\* case "https"
HttpsCode(o, allow) ==
    IF o.err = "newreq" THEN "Error"
    ELSE IF o.err = "redirect" THEN "Forbidden"
    ELSE IF o.err = "other" THEN "Error"
    ELSE StatusCode(o, allow)

\* the request and the configuration the pass meets
ReqInit ==
    /\ rpc = "parse"
    /\ url \in URLs /\ allowed \in AllowLists
    /\ outcome = NoOutcome /\ fetches = 0
    /\ fetchCode = "none" /\ respCode = "Success" /\ filtered = FALSE
    /\ currentHeight = 0 /\ vubInc = 0 /\ reqHeight = 0 /\ h = 0 /\ iters = 0
    /\ tx = NoTx /\ backupTx = NoTx /\ signed = FALSE

InitReq == OracleInit /\ ReqInit /\ PoolIdle /\ ExtIdle

\* the filter runs whatever the code is
AfterFetchAlways(code) == "filter"

\* after the scheme switch: the filter runs for Success only
AfterFetch(code) == IF code = "Success" THEN "filter" ELSE "heights"

\* u, err := url.ParseRequestURI(...); switch u.Scheme
ParseURL ==
    /\ rpc = "parse"
    /\ LET u == ParseRequestURI(url) IN
       IF u.err \/ SchemeBranch(u) = "default"
       THEN /\ respCode' = "ProtocolNotSupported"
            /\ fetchCode' = "ProtocolNotSupported"
            /\ rpc' = "heights"
       ELSE /\ rpc' = SchemeBranch(u)
            /\ UNCHANGED <<respCode, fetchCode>>
    /\ UNCHANGED <<url, allowed, outcome, fetches, filtered, heightVars, txVars>>
    /\ UNCHANGED <<oracleVars, poolVars, extVars>>

\* case "https": the request is built, sent and its response read
HttpsFetch ==
    /\ rpc = "https"
    /\ \E o \in Outcomes :
          /\ outcome' = o
          /\ fetches' = IF o.err = "newreq" THEN fetches ELSE fetches + 1
          /\ respCode' = HttpsCode(o, allowed)
          /\ fetchCode' = respCode'
          /\ rpc' = AfterFetch(respCode')
    /\ UNCHANGED <<url, allowed, filtered, heightVars, txVars>>
    /\ UNCHANGED <<oracleVars, poolVars, extVars>>

\* case neofs.URIScheme
NeoFSFetch ==
    /\ rpc = "neofs"
    /\ \E ok \in BOOLEAN :
          /\ respCode' = IF ok THEN "Success" ELSE "Error"
          /\ fetchCode' = respCode'
          /\ rpc' = AfterFetch(respCode')
    /\ fetches' = fetches + 1
    /\ UNCHANGED <<url, allowed, outcome, filtered, heightVars, txVars>>
    /\ UNCHANGED <<oracleVars, poolVars, extVars>>

\* if resp.Code == transaction.Success { ... filterRequest ... }
FilterRequest ==
    /\ rpc = "filter"
    /\ \E ok \in BOOLEAN : respCode' = IF ok THEN respCode ELSE "Error"
    /\ filtered' = TRUE
    /\ rpc' = "heights"
    /\ UNCHANGED <<url, allowed, outcome, fetches, fetchCode, heightVars, txVars>>
    /\ UNCHANGED <<oracleVars, poolVars, extVars>>

\* iterations of the backup loop are counted up to one more than there are heights
MaxIters == 2^HeightBits + 1

\* for h <= currentHeight
LoopCond(hh, cur) == hh <= cur

\* currentHeight, vubInc and the height of the original transaction (at most
\* the current height) are read from the chain; h += vubInc
GetHeights ==
    /\ rpc = "heights"
    /\ \E cur \in Heights, inc \in Heights, res \in {"found", "notfound", "error"} :
          /\ currentHeight' = cur
          /\ vubInc' = inc
          /\ IF res = "error"
             THEN /\ rpc' = "err"
                  /\ UNCHANGED <<reqHeight, h>>
             ELSE \E rh \in (IF res = "found" THEN 0 .. cur ELSE {cur}) :
                     /\ reqHeight' = rh
                     /\ h' = AddHeight(rh, inc)
                     /\ rpc' = "create"
    /\ UNCHANGED <<urlVars, iters, txVars>>
    /\ UNCHANGED <<oracleVars, poolVars, extVars>>

\* tx, err := o.CreateResponseTx(gas, h, resp)
CreatePrimary ==
    /\ rpc = "create"
    /\ \E ok \in BOOLEAN :
          IF ok THEN /\ tx' = [vub |-> h, code |-> respCode]
                     /\ rpc' = "loop"
          ELSE /\ rpc' = "err"
               /\ UNCHANGED tx
    /\ UNCHANGED <<urlVars, heightVars, backupTx, signed>>
    /\ UNCHANGED <<oracleVars, poolVars, extVars>>

\* for h <= currentHeight { h += vubInc }: one test of the condition
VubLoop ==
    /\ rpc = "loop"
    /\ IF LoopCond(h, currentHeight)
       THEN /\ h' = AddHeight(h, vubInc)
            /\ iters' = IF iters < MaxIters THEN iters + 1 ELSE iters
            /\ UNCHANGED rpc
       ELSE /\ rpc' = "backup"
            /\ UNCHANGED <<h, iters>>
    /\ UNCHANGED <<urlVars, currentHeight, vubInc, reqHeight, txVars>>
    /\ UNCHANGED <<oracleVars, poolVars, extVars>>

\* backupTx, err := o.CreateResponseTx(gas, h, ConsensusUnreachable)
CreateBackup ==
    /\ rpc = "backup"
    /\ \E ok \in BOOLEAN :
          IF ok THEN /\ backupTx' = [vub |-> h, code |-> "ConsensusUnreachable"]
                     /\ rpc' = "sign"
          ELSE /\ rpc' = "err"
               /\ UNCHANGED backupTx
    /\ UNCHANGED <<urlVars, heightVars, tx, signed>>
    /\ UNCHANGED <<oracleVars, poolVars, extVars>>

\* both transactions are stored in the entry and signed (Crit of Spec)
SignPair ==
    /\ rpc = "sign"
    /\ signed' = TRUE
    /\ rpc' = "done"
    /\ UNCHANGED <<urlVars, heightVars, tx, backupTx>>
    /\ UNCHANGED <<oracleVars, poolVars, extVars>>

NextReq ==
    \/ ParseURL
    \/ HttpsFetch
    \/ NeoFSFetch
    \/ FilterRequest
    \/ GetHeights
    \/ CreatePrimary
    \/ VubLoop
    \/ CreateBackup
    \/ SignPair

SpecReq == InitReq /\ [][NextReq]_vars

TypeOKReq ==
    /\ rpc \in {"parse", "https", "neofs", "filter", "heights", "create", "loop",
                "backup", "sign", "done", "err"}
    /\ h \in Heights /\ reqHeight \in Heights /\ iters \in 0 .. MaxIters
    /\ fetches \in 0 .. 1

(***************************************************************************)
(* Claims about one pass of processRequest (SpecReq).                      *)
(***************************************************************************)
\* the content type passes the allow-list: the list is empty, or it holds the
\* media type of the Content-Type header
C6_TypePasses ==
    \/ allowed = {}
    \/ ~ParseMediaType(outcome.hdr).err /\ ParseMediaType(outcome.hdr).typ \in allowed

\* the response code the table gives for the outcome of the fetch
C6_TableCode ==
    IF outcome.err = "redirect" THEN "Forbidden"
    ELSE IF outcome.err # "none" THEN "Error"
    ELSE IF outcome.status = 200
         THEN IF ~C6_TypePasses THEN "ContentTypeNotSupported"
              ELSE IF outcome.read = "toolarge" THEN "ResponseTooLarge"
              ELSE IF outcome.read = "ok" THEN "Success" ELSE "Error"
    ELSE IF outcome.status = 403 THEN "Forbidden"
    ELSE IF outcome.status = 404 THEN "NotFound"
    ELSE IF outcome.status = 408 THEN "Timeout"
    ELSE "Error"

\* C6: for an https request the response code is a function of the fetch
\* outcome: 200 gives Success only after the content type and the size pass
\* (else ContentTypeNotSupported / ResponseTooLarge / Error), 403 Forbidden,
\* 404 NotFound, 408 Timeout, any other status Error; a restricted redirect
\* gives Forbidden, any other client error gives Error.
C6_HttpsCodeTable ==
    /\ outcome # NoOutcome =>
          /\ SchemeBranch(ParseRequestURI(url)) = "https"
          /\ fetchCode = C6_TableCode
    /\ (rpc \notin {"parse", "https"} /\ SchemeBranch(ParseRequestURI(url)) = "https"
           /\ ~ParseRequestURI(url).err) => outcome # NoOutcome

\* C6 witness: a 200 response of a listed content type was read in full and
\* gave Success, and the pass went on to its end
C6_Witness ==
    /\ rpc = "done" /\ outcome.status = 200 /\ allowed # {}
    /\ outcome.hdr = "application/json; charset=utf-8" /\ fetchCode = "Success"

\* the URL does not parse, or its scheme is neither https nor neofs
C7_Unsupported ==
    ParseRequestURI(url).err \/ ParseRequestURI(url).scheme \notin {"https", "neofs"}

C8_HeightsAndTermination ==
    /\ tx # NoTx => tx.vub = reqHeight + vubInc
    /\ backupTx # NoTx => backupTx.vub > currentHeight
    /\ iters < MaxIters

(***************************************************************************)
(* The worker pool (SpecPool).  The workers run the same code and are      *)
(* counted by their position.                                              *)
(***************************************************************************)
defaultMaxConcurrentRequests == 10

\* if o.MainCfg.MaxConcurrentRequests == 0 { ... = defaultMaxConcurrentRequests }
MaxConcurrentRequests(cfg) ==
    IF cfg = 0 THEN defaultMaxConcurrentRequests ELSE cfg

\* o.requestCh = make(chan request, o.MainCfg.MaxConcurrentRequests)
RequestChCap(max) == max

StartMoreInclusive(i, max) == i <= max
\* for i := 0; i < o.MainCfg.MaxConcurrentRequests; i++
StartMore(i, max) == i < max

\* the backup loop started at hh ends; it cannot take more iterations than
\* there are heights
RECURSIVE BackupLoopEnds(_, _, _, _)
BackupLoopEnds(hh, cur, inc, fuel) ==
    IF ~LoopCond(hh, cur) THEN TRUE
    ELSE IF fuel = 0 THEN FALSE
    ELSE BackupLoopEnds(AddHeight(hh, inc), cur, inc, fuel - 1)

\* how the backup loop of a pass can go (TRUE: it ends), over the heights the
\* chain can report
LoopResults ==
    {BackupLoopEnds(AddHeight(rh, inc), cur, inc, MaxIters) :
        <<cur, inc, rh>> \in {t \in Heights \X Heights \X Heights : t[3] <= t[1]}}

\* NewOracle(cfg)
PoolInit ==
    /\ cfgMax \in 0 .. MaxCfg
    /\ maxConc = MaxConcurrentRequests(cfgMax)
    /\ chCap = RequestChCap(maxConc)
    /\ chLen = 0
    /\ ppc = "new" /\ started = 0 /\ toSend = 0 /\ closed = FALSE
    /\ nSelect = 0 /\ nProc = 0 /\ nSpin = 0 /\ spinTick = 0 /\ nExited = 0

InitPool == OracleInit /\ ReqIdle /\ PoolInit /\ ExtIdle

\* Start(): go o.start(), up to o.running = true
PoolStart ==
    /\ ppc = "new"
    /\ ppc' = "workers"
    /\ UNCHANGED <<cfgVars, workerVars, chLen, started, toSend, closed>>
    /\ UNCHANGED <<oracleVars, reqVars, extVars>>

\* for i := 0; i < MaxConcurrentRequests; i++ { go o.runRequestWorker() }
StartWorkers ==
    /\ ppc = "workers"
    /\ IF StartMore(started, maxConc)
       THEN /\ started' = started + 1
            /\ nSelect' = nSelect + 1
            /\ UNCHANGED ppc
       ELSE /\ ppc' = "select"
            /\ UNCHANGED <<started, nSelect>>
    /\ UNCHANGED <<cfgVars, nProc, nSpin, spinTick, nExited, chLen, toSend, closed>>
    /\ UNCHANGED <<oracleVars, reqVars, extVars>>

\* case <-tick.C with requests to reprocess, case reqs := <-o.requestMap
PoolTake(n) ==
    /\ ppc = "select"
    /\ toSend' = n
    /\ ppc' = "send"
    /\ UNCHANGED <<cfgVars, workerVars, chLen, started, closed>>
    /\ UNCHANGED <<oracleVars, reqVars, extVars>>

\* o.requestCh <- request{...}: blocks while the channel is full
PoolSend ==
    /\ ppc = "send" /\ chLen < chCap
    /\ chLen' = chLen + 1
    /\ toSend' = toSend - 1
    /\ ppc' = IF toSend' = 0 THEN "select" ELSE "send"
    /\ UNCHANGED <<cfgVars, workerVars, started, closed>>
    /\ UNCHANGED <<oracleVars, reqVars, extVars>>

\* case <-o.close of start(): tick.Stop(); return
PoolStop ==
    /\ ppc = "select" /\ closed
    /\ ppc' = "stopped"
    /\ UNCHANGED <<cfgVars, workerVars, chLen, started, toSend, closed>>
    /\ UNCHANGED <<oracleVars, reqVars, extVars>>

\* Shutdown(): close(o.close)
Shutdown ==
    /\ ~closed
    /\ closed' = TRUE
    /\ UNCHANGED <<cfgVars, workerVars, chLen, ppc, started, toSend>>
    /\ UNCHANGED <<oracleVars, reqVars, extVars>>

\* case req := <-o.requestCh; acc == nil: continue
WorkerTake ==
    /\ nSelect > 0 /\ chLen > 0
    /\ chLen' = chLen - 1
    /\ \E acc \in BOOLEAN :
          IF acc THEN /\ nSelect' = nSelect - 1
                      /\ nProc' = nProc + 1
          ELSE UNCHANGED <<nSelect, nProc>>
    /\ UNCHANGED <<cfgVars, nSpin, spinTick, nExited, ppc, started, toSend, closed>>
    /\ UNCHANGED <<oracleVars, reqVars, extVars>>

\* o.processRequest(...): the pass returns, or its backup loop never ends
WorkerProcess ==
    /\ nProc > 0
    /\ \E ends \in LoopResults :
          IF ends
          THEN /\ nProc' = nProc - 1
               /\ nSelect' = nSelect + 1
               /\ UNCHANGED nSpin
          ELSE /\ nProc' = nProc - 1
               /\ nSpin' = nSpin + 1
               /\ UNCHANGED nSelect
    /\ UNCHANGED <<cfgVars, spinTick, nExited, chLen, ppc, started, toSend, closed>>
    /\ UNCHANGED <<oracleVars, reqVars, extVars>>

\* for h <= currentHeight { h += vubInc }: one more iteration of a loop that
\* never ends
WorkerSpin ==
    /\ nSpin > 0
    /\ spinTick' = 1 - spinTick
    /\ UNCHANGED <<cfgVars, nSelect, nProc, nSpin, nExited, chLen, ppc, started, toSend, closed>>
    /\ UNCHANGED <<oracleVars, reqVars, extVars>>

\* case <-o.close of runRequestWorker: return
WorkerExit ==
    /\ nSelect > 0 /\ closed
    /\ nSelect' = nSelect - 1
    /\ nExited' = nExited + 1
    /\ UNCHANGED <<cfgVars, nProc, nSpin, spinTick, chLen, ppc, started, toSend, closed>>
    /\ UNCHANGED <<oracleVars, reqVars, extVars>>

NextPool ==
    \/ PoolStart
    \/ StartWorkers
    \/ \E n \in 1 .. MaxBatch : PoolTake(n)
    \/ PoolSend
    \/ PoolStop
    \/ Shutdown
    \/ WorkerTake
    \/ WorkerProcess
    \/ WorkerSpin
    \/ WorkerExit

SpecPool == InitPool /\ [][NextPool]_vars

\* every goroutine that can take a step is scheduled; a select with several
\* ready cases picks among them at random, so a worker that finds o.close
\* closed again and again takes that case in the end
SpecPoolFair ==
    /\ SpecPool
    /\ WF_vars(PoolStart) /\ WF_vars(StartWorkers)
    /\ WF_vars(PoolSend) /\ WF_vars(WorkerProcess) /\ WF_vars(WorkerSpin)
    /\ SF_vars(WorkerExit) /\ SF_vars(PoolStop)

TypeOKPool ==
    /\ ppc \in {"new", "workers", "select", "send", "stopped"}
    /\ toSend \in 0 .. MaxBatch
    /\ (ppc = "send") <=> (toSend > 0)
    /\ nSelect >= 0 /\ nProc >= 0 /\ nSpin >= 0 /\ nExited >= 0 /\ chLen >= 0
    /\ spinTick \in {0, 1}

(***************************************************************************)
(* Claims about the worker pool (SpecPool, SpecPoolFair).                  *)
(***************************************************************************)
\* workers that have not returned
LiveWorkers == nSelect + nProc + nSpin

\* C9 (as stated): after Shutdown every request worker eventually exits: it
\* finishes the request it is processing and returns, and no worker stays
\* behind forever.
C9_WorkersExitAfterShutdown ==
    [](closed => <>(ppc # "workers" /\ LiveWorkers = 0))

\* C10: exactly MaxConcurrentRequests workers are started (10 when 0 is
\* configured), at most that many requests are inside processRequest of a
\* worker at a time, and the request channel holds at most
\* MaxConcurrentRequests requests.
C10_PoolBounded ==
    /\ maxConc = (IF cfgMax = 0 THEN 10 ELSE cfgMax)
    /\ started <= maxConc
    /\ ppc \in {"select", "send", "stopped"} => started = maxConc
    /\ LiveWorkers + nExited = started
    /\ nProc + nSpin <= maxConc
    /\ chLen <= maxConc

\* C10 witness: with 0 configured all ten workers are inside processRequest,
\* ten more requests wait in the channel and the dispatcher is blocked on
\* its send
C10_Witness ==
    /\ cfgMax = 0 /\ started = 10 /\ nProc = 10 /\ chLen = 10 /\ ppc = "send"

(***************************************************************************)
(* The broadcaster (SpecBc): SetBroadcaster, getBroadcaster, Shutdown.     *)
(***************************************************************************)
\* NewOracle: o.ResponseHandler is the broadcaster of Config; nothing calls
\* its Run
BcInit ==
    /\ handler = 0 /\ bpc = "idle" /\ barg = NoBc /\ rlocks = 0
    /\ shpc = "idle" /\ shgot = NoBc /\ runQ = {}
    /\ nRun = [b \in Bcs |-> 0] /\ nShut = [b \in Bcs |-> 0] /\ shutUnrun = {}

InitBc == OracleInit /\ ReqIdle /\ PoolIdle /\ BcInit /\ ConsIdle /\ NativeIdle /\ MgmtInit /\ IdxIdle /\ CallIdle /\ WitIdle /\ CwIdle /\ VmIdle /\ DepIdle /\ MsIdle /\ LifeIdle /\ TxxIdle

\* o.mtx.Lock() returns when no reader and no writer holds o.mtx
WriteLock == bpc = "idle" /\ rlocks = 0

\* o.mtx.RLock() returns when no writer holds o.mtx
ReadLock == bpc = "idle"

\* broadcasters the oracle has held so far
UsedBcs == {b \in Bcs : b = handler \/ b \in runQ \/ nRun[b] > 0 \/ nShut[b] > 0}

\* b.Shutdown() is called
CallShutdown(b) ==
    /\ nShut' = [nShut EXCEPT ![b] = Bump(@)]
    /\ shutUnrun' = IF nRun[b] = 0 THEN shutUnrun \cup {b} ELSE shutUnrun
    /\ UNCHANGED nRun

\* SetBroadcaster(b): o.mtx.Lock(); every call installs a new broadcaster
SetBroadcasterLock(b) ==
    /\ bpc = "idle" /\ WriteLock
    /\ b \notin UsedBcs /\ \A c \in Bcs : c < b => c \in UsedBcs
    /\ bpc' = "locked"
    /\ barg' = b
    /\ UNCHANGED <<handler, rlocks, shpc, shgot, runQ, bcLog>>
    /\ UNCHANGED notBcVars

\* o.ResponseHandler.Shutdown()
SetBroadcasterShutdown ==
    /\ bpc = "locked"
    /\ CallShutdown(handler)
    /\ bpc' = "shut"
    /\ UNCHANGED <<handler, barg, rlocks, shpc, shgot, runQ>>
    /\ UNCHANGED notBcVars

\* o.ResponseHandler = b
SetBroadcasterAssign ==
    /\ bpc = "shut"
    /\ handler' = barg
    /\ bpc' = "assigned"
    /\ UNCHANGED <<barg, rlocks, shpc, shgot, runQ, bcLog>>
    /\ UNCHANGED notBcVars

\* go b.Run(), then the deferred o.mtx.Unlock()
SetBroadcasterGo ==
    /\ bpc = "assigned"
    /\ runQ' = runQ \cup {barg}
    /\ bpc' = "idle"
    /\ barg' = NoBc
    /\ UNCHANGED <<handler, rlocks, shpc, shgot, bcLog>>
    /\ UNCHANGED notBcVars

\* the goroutine of "go b.Run()" gets to run
BcRun(b) ==
    /\ b \in runQ
    /\ runQ' = runQ \ {b}
    /\ nRun' = [nRun EXCEPT ![b] = Bump(@)]
    /\ UNCHANGED <<handler, bpc, barg, rlocks, shpc, shgot, nShut, shutUnrun>>
    /\ UNCHANGED notBcVars

\* Shutdown(): close(o.close)
BcShutdownClose ==
    /\ shpc = "idle"
    /\ shpc' = "closed"
    /\ UNCHANGED <<handler, bpc, barg, rlocks, shgot, runQ, bcLog>>
    /\ UNCHANGED notBcVars

\* getBroadcaster(): o.mtx.RLock()
GetBroadcasterRLock ==
    /\ shpc = "closed" /\ ReadLock
    /\ rlocks' = rlocks + 1
    /\ shpc' = "rlocked"
    /\ UNCHANGED <<handler, bpc, barg, shgot, runQ, bcLog>>
    /\ UNCHANGED notBcVars

\* return o.ResponseHandler, then the deferred o.mtx.RUnlock()
GetBroadcasterReturn ==
    /\ shpc = "rlocked"
    /\ shgot' = handler
    /\ rlocks' = rlocks - 1
    /\ shpc' = "got"
    /\ UNCHANGED <<handler, bpc, barg, runQ, bcLog>>
    /\ UNCHANGED notBcVars

\* o.getBroadcaster().Shutdown()
BcShutdownCall ==
    /\ shpc = "got"
    /\ CallShutdown(shgot)
    /\ shpc' = "done"
    /\ UNCHANGED <<handler, bpc, barg, rlocks, shgot, runQ>>
    /\ UNCHANGED notBcVars

NextBc ==
    \/ \E b \in 1 .. MaxBc : SetBroadcasterLock(b)
    \/ SetBroadcasterShutdown
    \/ SetBroadcasterAssign
    \/ SetBroadcasterGo
    \/ \E b \in Bcs : BcRun(b)
    \/ BcShutdownClose
    \/ GetBroadcasterRLock
    \/ GetBroadcasterReturn
    \/ BcShutdownCall

SpecBc == InitBc /\ [][NextBc]_vars

TypeOKBc ==
    /\ handler \in Bcs /\ rlocks \in 0 .. 1
    /\ bpc \in {"idle", "locked", "shut", "assigned"}
    /\ shpc \in {"idle", "closed", "rlocked", "got", "done"}
    /\ runQ \subseteq Bcs

(***************************************************************************)
(* Claims about the broadcaster (SpecBc).                                  *)
(***************************************************************************)
\* C11 (as stated): Run and Shutdown bracket every broadcaster the oracle
\* holds: Run is invoked before Shutdown is, Shutdown is invoked at most
\* once, and the swap of SetBroadcaster is atomic with respect to
\* getBroadcaster (no reader holds o.mtx during it).
C11_RunShutdownBracket ==
    /\ shutUnrun = {}
    /\ \A b \in Bcs : nShut[b] <= 1
    /\ bpc # "idle" => rlocks = 0

(***************************************************************************)
(* The consensus service (SpecCons).  NewService leaves s.dbft and         *)
(* s.validators nil without a wallet.  Callers run OnPayload step by step: *)
(* the check (validatePayload, cache.Has), Broadcast, cache.Add and the    *)
(* send on s.messages are separate steps with no lock around them.         *)
(***************************************************************************)
\* the relay cache: a FIFO of at most CacheCap payloads; Add of a payload it
\* holds changes nothing, Add to a full cache drops the oldest
CacheHas(c, q) == \E i \in 1 .. Len(c) : c[i] = q

CacheAdd(c, q) ==
    IF CacheHas(c, q) THEN c
    ELSE IF Len(c) < CacheCap THEN Append(c, q)
    ELSE Append(Tail(c), q)

\* the Broadcast count restarts for a payload the cache has dropped
Forget(n, c) == [q \in Payloads |-> IF CacheHas(c, q) THEN n[q] ELSE 0]

\* len(s.getValidators())
LenValidators(w) == IF w THEN NumValidators ELSE 0

\* validatePayload: false for an index outside the validators; otherwise the
\* key is asserted to be a *publicKey (the validators are built by
\* crypto.NewBLSPublicKey, so the assertion can panic) and p.Verify decides
ValidateOutcomes(w, idx) ==
    IF idx >= LenValidators(w) THEN {"invalid"}
    ELSE {"valid", "invalid", "panic"}

\* the event loop selects only between two handlers
SelectReadyAlways == TRUE

SelectReady == active = {}

ConsInit ==
    /\ wallet \in BOOLEAN
    /\ cache = <<>> /\ messages = <<>> /\ transactions = 0
    /\ cpc = [c \in Callers |-> "idle"] /\ cp = [c \in Callers |-> NoPayload]
    /\ loopOn = FALSE /\ active = {} /\ lmsg = NoPayload
    /\ nBcast = [q \in Payloads |-> 0] /\ nOwn = 0 /\ panicked = FALSE

InitCons == OracleInit /\ ReqIdle /\ PoolIdle /\ BcIdle /\ ConsInit /\ NativeIdle /\ MgmtInit /\ IdxIdle /\ CallIdle /\ WitIdle /\ CwIdle /\ VmIdle /\ DepIdle /\ MsIdle /\ LifeIdle /\ TxxIdle

\* OnPayload: if !s.validatePayload(cp) || s.cache.Has(cp.Hash()) { return }
OnPayloadCheck(c, q, idx) ==
    /\ ~panicked /\ cpc[c] = "idle"
    /\ \E v \in ValidateOutcomes(wallet, idx) :
        /\ panicked' = (v = "panic")
        /\ cpc' = [cpc EXCEPT ![c] =
                     IF v = "valid" /\ ~CacheHas(cache, q) THEN "broadcast" ELSE "idle"]
        /\ cp' = [cp EXCEPT ![c] =
                     IF v = "valid" /\ ~CacheHas(cache, q) THEN q ELSE NoPayload]
    /\ UNCHANGED <<wallet, cache, messages, transactions, loopVars, consLog>>
    /\ UNCHANGED notConsVars

\* OnPayload: s.Config.Broadcast(cp)
OnPayloadBroadcast(c) ==
    /\ ~panicked /\ cpc[c] = "broadcast"
    /\ nBcast' = [nBcast EXCEPT ![cp[c]] = @ + 1]
    /\ cpc' = [cpc EXCEPT ![c] = "add"]
    /\ UNCHANGED <<wallet, cache, messages, transactions, cp, loopVars, nOwn, panicked>>
    /\ UNCHANGED notConsVars

\* OnPayload: s.cache.Add(cp); if s.dbft == nil { return }
OnPayloadAdd(c) ==
    /\ ~panicked /\ cpc[c] = "add"
    /\ cache' = CacheAdd(cache, cp[c])
    /\ nBcast' = Forget(nBcast, cache')
    /\ cpc' = [cpc EXCEPT ![c] = IF wallet THEN "send" ELSE "idle"]
    /\ cp' = [cp EXCEPT ![c] = IF wallet THEN @ ELSE NoPayload]
    /\ UNCHANGED <<wallet, messages, transactions, loopVars, nOwn, panicked>>
    /\ UNCHANGED notConsVars

\* OnPayload: s.messages <- *cp (blocks while the channel is full)
OnPayloadSend(c) ==
    /\ ~panicked /\ cpc[c] = "send"
    /\ Len(messages) < ChanCap
    /\ messages' = Append(messages, cp[c])
    /\ cpc' = [cpc EXCEPT ![c] = "idle"]
    /\ cp' = [cp EXCEPT ![c] = NoPayload]
    /\ UNCHANGED <<wallet, cache, transactions, loopVars, consLog, panicked>>
    /\ UNCHANGED notConsVars

\* OnTransaction: if s.dbft != nil { s.transactions <- tx }
OnTransaction(c) ==
    /\ ~panicked /\ cpc[c] = "idle"
    /\ wallet => transactions < ChanCap
    /\ transactions' = IF wallet THEN transactions + 1 ELSE transactions
    /\ UNCHANGED <<wallet, cache, messages, callerVars, loopVars, consLog, panicked>>
    /\ UNCHANGED notConsVars

\* Start: s.dbft.Start(); go s.eventLoop().  s.dbft is nil without a wallet.
\* Start is called once.
ServiceStart ==
    /\ ~panicked /\ ~loopOn
    /\ IF wallet
       THEN loopOn' = TRUE /\ UNCHANGED panicked
       ELSE panicked' = TRUE /\ UNCHANGED loopOn
    /\ UNCHANGED <<wallet, cache, messages, transactions, callerVars, active, lmsg, consLog>>
    /\ UNCHANGED notConsVars

\* eventLoop: case hv := <-s.dbft.Timer.C(): s.dbft.OnTimeout(hv)
LoopTimeout ==
    /\ ~panicked /\ loopOn /\ SelectReady
    /\ active' = active \cup {"OnTimeout"}
    /\ UNCHANGED <<wallet, cache, messages, transactions, callerVars, loopOn, lmsg, consLog, panicked>>
    /\ UNCHANGED notConsVars

\* eventLoop: case msg := <-s.messages: s.dbft.OnReceive(&msg)
LoopReceive ==
    /\ ~panicked /\ loopOn /\ SelectReady
    /\ messages # <<>>
    /\ lmsg' = Head(messages)
    /\ messages' = Tail(messages)
    /\ active' = active \cup {"OnReceive"}
    /\ UNCHANGED <<wallet, cache, transactions, callerVars, loopOn, consLog, panicked>>
    /\ UNCHANGED notConsVars

\* eventLoop: case tx := <-s.transactions: s.dbft.OnTransaction(tx)
LoopTransaction ==
    /\ ~panicked /\ loopOn /\ SelectReady
    /\ transactions > 0
    /\ transactions' = transactions - 1
    /\ active' = active \cup {"OnTransaction"}
    /\ UNCHANGED <<wallet, cache, messages, callerVars, loopOn, lmsg, consLog, panicked>>
    /\ UNCHANGED notConsVars

\* broadcast, called by dBFT from a handler: s.cache.Add(p); s.Config.Broadcast(p)
ServiceBroadcast ==
    /\ ~panicked /\ active # {}
    /\ nOwn < 2
    /\ cache' = CacheAdd(cache, OwnPayload)
    /\ nBcast' = Forget(nBcast, cache')
    /\ nOwn' = nOwn + 1
    /\ UNCHANGED <<wallet, messages, transactions, callerVars, loopVars, panicked>>
    /\ UNCHANGED notConsVars

\* the handler returns and the loop selects again
HandlerReturn ==
    /\ ~panicked /\ active # {}
    /\ \E hd \in active : active' = active \ {hd}
    /\ nOwn' = 0
    /\ UNCHANGED <<wallet, cache, messages, transactions, callerVars, loopOn, lmsg, nBcast, panicked>>
    /\ UNCHANGED notConsVars

NextCons ==
    \/ \E c \in Callers, q \in Payloads, idx \in 0 .. NumValidators : OnPayloadCheck(c, q, idx)
    \/ \E c \in Callers : OnPayloadBroadcast(c)
    \/ \E c \in Callers : OnPayloadAdd(c)
    \/ \E c \in Callers : OnPayloadSend(c)
    \/ \E c \in Callers : OnTransaction(c)
    \/ ServiceStart
    \/ LoopTimeout
    \/ LoopReceive
    \/ LoopTransaction
    \/ ServiceBroadcast
    \/ HandlerReturn

SpecCons == InitCons /\ [][NextCons]_vars

TypeOKCons ==
    /\ wallet \in BOOLEAN /\ loopOn \in BOOLEAN /\ panicked \in BOOLEAN
    /\ Len(cache) <= CacheCap /\ Len(messages) <= ChanCap
    /\ transactions \in 0 .. ChanCap
    /\ \A c \in Callers : cpc[c] \in {"idle", "broadcast", "add", "send"}
    /\ active \subseteq {"OnTimeout", "OnReceive", "OnTransaction"}

C13_WatchOnlyRelays ==
    ~wallet =>
        /\ ~panicked
        /\ messages = <<>> /\ transactions = 0
        /\ active = {} /\ nOwn = 0

EffectiveNow(n, i) == i

EffectiveFrom(n, i) == IF n = "GasPerBlock" THEN i + 1 ELSE i

DaoGet(d, n, i) == IF i >= d[n].from THEN d[n].nxt ELSE d[n].cur

DaoPut(d, n, i, v) ==
    [d EXCEPT ![n] = [cur |-> IF EffectiveFrom(n, i) <= i THEN v ELSE DaoGet(d, n, i),
                      nxt |-> v,
                      from |-> EffectiveFrom(n, i)]]

\* commit replays the writes of the child onto the parent; discard drops them
CommitNothing(parent, child) == parent

DiscardKeeps(parent, child) == child

Commit(parent, child) == child

Discard(parent, child) == parent

\* the committee witness test of a setter
CheckCommitteeAny(t) == TRUE

CheckCommittee(t) == t.committee

InRange(v) == minValue <= v /\ v <= maxValue

\* the faults of a setter ("" is success); which of the two tests comes
\* first is not fixed
SetOutcomes(t) ==
    { r \in {"", "invalid committee signature", "invalid value"} :
        /\ (r = "") = (CheckCommittee(t) /\ InRange(t.arg))
        /\ (r = "invalid committee signature") => ~CheckCommittee(t)
        /\ (r = "invalid value") => ~InRange(t.arg) }

\* the transactions: one call of set<name>(arg) or get<name>(), signed by
\* the committee or by a new account, with or without the gas for the
\* call, and followed or not by a throw of the script
NativeTxs ==
    { t \in [kind : {"set", "get"}, name : Names, arg : Values \cup {NoValue},
             committee : BOOLEAN, gas : BOOLEAN, throws : BOOLEAN] :
        (t.kind = "get") = (t.arg = NoValue) }

InitNative == OracleInit /\ ReqIdle /\ PoolIdle /\ BcIdle /\ ConsIdle /\ NativeIdle /\ MgmtInit /\ IdxIdle /\ CallIdle /\ WitIdle /\ CwIdle /\ VmIdle /\ DepIdle /\ MsIdle /\ LifeIdle /\ TxxIdle

\* AddNewBlock: open the block-scoped DAO
AddNewBlock ==
    /\ ~inBlock /\ index < MaxBlocks
    /\ inBlock' = TRUE /\ index' = index + 1 /\ nTx' = 0
    /\ blockDao' = chain
    /\ last' = NoResult
    /\ UNCHANGED <<chain, curTx, txPc, txDao, vmFault, txRet, prevDao, haltNow, haltOld>>
    /\ UNCHANGED notNatVars

\* the next transaction of the block: open the tx-scoped DAO, fresh VM
TxOpen(t) ==
    /\ inBlock /\ txPc = "off" /\ nTx < MaxTxs
    /\ curTx' = t /\ txPc' = "call"
    /\ txDao' = blockDao /\ prevDao' = blockDao
    /\ vmFault' = "" /\ txRet' = NoValue
    /\ UNCHANGED <<chain, index, inBlock, nTx, blockDao, last, haltNow, haltOld>>
    /\ UNCHANGED notNatVars

\* native.Call: AddGas(m.Price), then result := m.Func(ic, args)
NativeCall ==
    /\ txPc = "call"
    /\ txPc' = "end"
    /\ IF ~curTx.gas
       THEN vmFault' = "gas limit exceeded" /\ UNCHANGED <<txDao, txRet>>
       ELSE IF curTx.kind = "get"
       THEN /\ txRet' = DaoGet(txDao, curTx.name, index)
            /\ UNCHANGED <<txDao, vmFault>>
       ELSE \E r \in SetOutcomes(curTx) :
            /\ vmFault' = r
            /\ txDao' = IF r = "" THEN DaoPut(txDao, curTx.name, index, curTx.arg) ELSE txDao
            /\ UNCHANGED txRet
    /\ UNCHANGED <<chain, index, inBlock, nTx, blockDao, curTx, natLog>>
    /\ UNCHANGED notNatVars

\* the VM stops: HALT commits the tx DAO into the block DAO, FAULT drops it;
\* the result is recorded and the block goes on
TxEnd ==
    /\ txPc = "end"
    /\ LET fault == vmFault # "" \/ curTx.throws IN
        /\ blockDao' = IF fault THEN Discard(blockDao, txDao) ELSE Commit(blockDao, txDao)
        /\ last' = [tx |-> curTx,
                    state |-> IF fault THEN "FAULT" ELSE "HALT",
                    reason |-> IF vmFault # "" THEN vmFault
                               ELSE IF curTx.throws THEN "throw" ELSE "",
                    ret |-> IF fault THEN NoValue ELSE txRet]
        /\ haltNow' = IF ~fault /\ curTx.kind = "set"
                      THEN [haltNow EXCEPT ![curTx.name] = curTx.arg] ELSE haltNow
    /\ nTx' = nTx + 1
    /\ curTx' = NoNativeTx /\ txPc' = "off"
    /\ txDao' = blockDao' /\ vmFault' = "" /\ txRet' = NoValue
    /\ UNCHANGED <<chain, index, inBlock, prevDao, haltOld>>
    /\ UNCHANGED notNatVars

\* the block is persisted: commit the block DAO
PersistBlock ==
    /\ inBlock /\ txPc = "off"
    /\ chain' = Commit(chain, blockDao)
    /\ inBlock' = FALSE
    /\ last' = NoResult
    /\ prevDao' = chain' /\ txDao' = chain' /\ blockDao' = chain'
    /\ haltOld' = [n \in Names |-> IF haltNow[n] # NoValue THEN haltNow[n] ELSE haltOld[n]]
    /\ haltNow' = [n \in Names |-> NoValue]
    /\ UNCHANGED <<index, nTx, curTx, txPc, vmFault, txRet>>
    /\ UNCHANGED notNatVars

NextNative ==
    \/ AddNewBlock
    \/ \E t \in NativeTxs : TxOpen(t)
    \/ NativeCall
    \/ TxEnd
    \/ PersistBlock

SpecNative == InitNative /\ [][NextNative]_vars

TypeOKNative ==
    /\ index \in 0 .. MaxBlocks /\ nTx \in 0 .. MaxTxs
    /\ curTx \in NativeTxs \cup {NoNativeTx}
    /\ txPc \in {"off", "call", "end"}
    /\ \A n \in Names : DaoGet(blockDao, n, index) \in minValue .. maxValue

C16_SetThenGet ==
    (last.tx.kind = "get" /\ last.state = "HALT") =>
        last.ret = IF last.tx.name # "GasPerBlock" /\ haltNow[last.tx.name] # NoValue
                   THEN haltNow[last.tx.name]
                   ELSE haltOld[last.tx.name]

\* C16 witness: a getter has returned the value a set of the same block
\* stored, which differs from the one of the earlier blocks.
C16_Witness ==
    /\ last.tx.kind = "get" /\ last.state = "HALT"
    /\ last.tx.name # "GasPerBlock"
    /\ haltNow[last.tx.name] = last.ret
    /\ haltOld[last.tx.name] # last.ret

NullArg == 0
EmptyArg == 0 - 1
LargeArg == 0 - 2
BadArg == 0 - 3

\* mgmt.GetContract(d, h): the stored state, NoContract for an error
GetContract(store, g) == store[g]

Exists(store, g) == store[g] # NoContract

\* the next id after a Deploy that failed
AfterFailedDeployNext(n) == n + 1

AfterFailedDeploy(n) == n

\* the update counter after a successful Update
UpdateCounterKept(n) == n

UpdateCounter(n) == n + 1

\* the store after Destroy(g)
RemoveAll(store, g) == [x \in Hashes |-> NoContract]

Remove(store, g) == [store EXCEPT ![g] = NoContract]

\* Update is rejected: no arguments, no contract, empty or oversized script
\* or manifest, invalid manifest, no gas
UpdateRejected(store, g, script, manif, gas) ==
    \/ script = NullArg /\ manif = NullArg
    \/ ~Exists(store, g)
    \/ script \in {EmptyArg, LargeArg}
    \/ manif \in {EmptyArg, LargeArg, BadArg}
    \/ ~gas

\* the arguments of Update: every script and manifest, supplied or Null,
\* with gas, and one call for each way of being rejected
UpdateArgs ==
    { <<script, manif, TRUE>> : script \in Scripts \cup {NullArg}, manif \in Manifests \cup {NullArg} }
      \cup { <<EmptyArg, 1, TRUE>>, <<LargeArg, NullArg, TRUE>>, <<NullArg, EmptyArg, TRUE>>,
              <<NullArg, LargeArg, TRUE>>, <<NullArg, BadArg, TRUE>>, <<1, 2, FALSE>> }

InitMgmt == OracleInit /\ ReqIdle /\ PoolIdle /\ BcIdle /\ ConsIdle /\ NativeIdle /\ MgmtInit /\ IdxIdle /\ CallIdle /\ WitIdle /\ CwIdle /\ VmIdle /\ DepIdle /\ MsIdle /\ LifeIdle /\ TxxIdle

\* mgmt.Deploy(d, sender, ne, manif)
Deploy(sender, script, manif) ==
    LET g == CreateContractHash(sender, script) IN
    /\ nDeployed < MaxDeploys
    /\ IF Exists(contracts, g)
       THEN /\ nextID' = AfterFailedDeploy(nextID)
            /\ lastOp' = [op |-> "Deploy", hash |-> g, ok |-> FALSE,
                         sender |-> sender, script |-> script, manifest |-> manif]
            /\ UNCHANGED <<contracts, nDeployed, destroyed>>
       ELSE /\ contracts' = [contracts EXCEPT ![g] =
                               [id |-> nextID, counter |-> 0, hash |-> g,
                                script |-> script, manifest |-> manif]]
            /\ nextID' = nextID + 1
            /\ nDeployed' = nDeployed + 1
            /\ destroyed' = destroyed \ {g}
            /\ lastOp' = [op |-> "Deploy", hash |-> g, ok |-> TRUE,
                         sender |-> sender, script |-> script, manifest |-> manif]
    /\ UNCHANGED notMgmtVars

\* mgmt.Update(d, h, ne, manif) / contractUpdate
Update(g, script, manif, gas) ==
    /\ IF UpdateRejected(contracts, g, script, manif, gas)
       THEN /\ lastOp' = [op |-> "Update", hash |-> g, ok |-> FALSE,
                         sender |-> 0, script |-> 0, manifest |-> 0]
            /\ UNCHANGED contracts
       ELSE /\ contracts[g].counter < MaxUpdates
            /\ contracts' = [contracts EXCEPT ![g] =
                               [@ EXCEPT !.counter = UpdateCounter(@),
                                         !.script = IF script = NullArg THEN @ ELSE script,
                                         !.manifest = IF manif = NullArg THEN @ ELSE manif]]
            /\ lastOp' = [op |-> "Update", hash |-> g, ok |-> TRUE,
                         sender |-> 0, script |-> script, manifest |-> manif]
    /\ UNCHANGED <<nextID, nDeployed, destroyed>>
    /\ UNCHANGED notMgmtVars

\* mgmt.Destroy(d, h)
Destroy(g) ==
    /\ IF Exists(contracts, g)
       THEN /\ contracts' = Remove(contracts, g)
            /\ destroyed' = destroyed \cup {g}
            /\ lastOp' = [op |-> "Destroy", hash |-> g, ok |-> TRUE,
                         sender |-> 0, script |-> 0, manifest |-> 0]
       ELSE /\ lastOp' = [op |-> "Destroy", hash |-> g, ok |-> FALSE,
                         sender |-> 0, script |-> 0, manifest |-> 0]
            /\ UNCHANGED <<contracts, destroyed>>
    /\ UNCHANGED <<nextID, nDeployed>>
    /\ UNCHANGED notMgmtVars

NextMgmt ==
    \/ \E sender \in Senders, script \in Scripts, manif \in Manifests :
          Deploy(sender, script, manif)
    \/ \E g \in Hashes, a \in UpdateArgs : Update(g, a[1], a[2], a[3])
    \/ \E g \in Hashes : Destroy(g)

SpecMgmt == InitMgmt /\ [][NextMgmt]_vars

TypeOKMgmt ==
    /\ nextID \in 1 .. (MaxDeploys + 1)
    /\ nDeployed \in 0 .. MaxDeploys
    /\ destroyed \subseteq Hashes
    /\ \A g \in Hashes : Exists(contracts, g) => contracts[g].hash = g

C19_UpdateCounts ==
    [][lastOp'.op = "Update" =>
         LET g == lastOp'.hash IN
         /\ lastOp'.ok =>
               /\ Exists(contracts, g)
               /\ contracts'[g].counter = contracts[g].counter + 1
               /\ contracts'[g].id = contracts[g].id
               /\ contracts'[g].hash = contracts[g].hash
               /\ contracts'[g].script =
                     IF lastOp'.script = NullArg THEN contracts[g].script ELSE lastOp'.script
               /\ contracts'[g].manifest =
                     IF lastOp'.manifest = NullArg THEN contracts[g].manifest ELSE lastOp'.manifest
               /\ \A k \in Hashes \ {g} : contracts'[k] = contracts[k]
         /\ ~lastOp'.ok => contracts' = contracts]_vars

\* C19 witness: a contract has been updated twice and its script is no
\* longer the one its hash was made of.
C19_Witness ==
    /\ lastOp.op = "Update" /\ lastOp.ok
    /\ contracts[lastOp.hash].counter = 2
    /\ \A sender \in Senders :
          CreateContractHash(sender, contracts[lastOp.hash].script) # lastOp.hash

\* C20: after Destroy(h), GetContract(h) reports absence until a new
\* deployment produces h, and Destroy removes no other contract.
C20_DestroyedIsAbsent ==
    /\ [](\A g \in destroyed : GetContract(contracts, g) = NoContract)
    /\ [][lastOp'.op = "Destroy" =>
            \A k \in Hashes \ {lastOp'.hash} : contracts'[k] = contracts[k]]_vars

\* C20 witness: a contract was destroyed while another one stays stored.
C20_Witness ==
    /\ lastOp.op = "Destroy" /\ lastOp.ok
    /\ GetContract(contracts, lastOp.hash) = NoContract
    /\ \E k \in Hashes : Exists(contracts, k)

(***************************************************************************)
(* Further claims about one pass of processRequest (SpecReq).              *)
(***************************************************************************)
\* C27: the filter is applied exactly when the fetch ended with Success: once
\* the pass is beyond the filter, it was applied iff the fetch gave Success,
\* a code other than Success is the one the fetch produced, and the step of
\* the filter starts from Success and leaves Success or Error.
C27_FilterOnSuccessOnly ==
    /\ [](rpc \notin {"parse", "https", "neofs", "filter"} =>
             /\ filtered = (fetchCode = "Success")
             /\ fetchCode # "Success" => respCode = fetchCode
             /\ fetchCode = "Success" => respCode \in {"Success", "Error"})
    /\ [][(filtered' /\ ~filtered) =>
             /\ respCode = "Success"
             /\ respCode' \in {"Success", "Error"}
             /\ fetchCode' = fetchCode]_vars

\* C27 witness: the fetch gave Success and the filter failed: the code is Error.
C27_Witness ==
    /\ filtered /\ fetchCode = "Success" /\ respCode = "Error"

(***************************************************************************)
(* The NeoFS node index (SpecIdx):                                         *)
(*   index := (int(req.ID) + incTx.attempts) % len(o.MainCfg.NeoFS.Nodes)  *)
(* req.ID is a uint64, int and attempts are signed; the remainder of Go    *)
(* has the sign of the dividend; a zero divisor and an index outside the   *)
(* slice are run-time panics.                                              *)
(***************************************************************************)
\* int(x) of an unsigned x: the same bits, read as two's complement
ToInt(x) == IF x >= 2^(IdBits - 1) THEN x - 2^IdBits ELSE x

\* a signed sum, wrapped to the width of int
WrapInt(x) == ToInt(x % 2^IdBits)

\* a % n of Go for n > 0: truncated division
GoRem(a, n) == IF a >= 0 THEN a % n ELSE 0 - ((0 - a) % n)

\* the index expression of processRequest, for a non-empty node list
NeoFSIndex(id, attempts, n) == GoRem(WrapInt(ToInt(id) + attempts), n)

IdxInit ==
    /\ nfId \in 0 .. (2^IdBits - 1)
    /\ nfNodes \in 0 .. MaxNodes
    /\ nfAttempts = 0
    /\ nfPc = "index" /\ nfIndex = NoIndex /\ nfPanic = ""

InitIdx == OracleInit /\ ReqIdle /\ PoolIdle /\ BcIdle /\ ConsIdle /\ NativeIdle /\ MgmtInit /\ IdxInit /\ CallIdle /\ WitIdle /\ CwIdle /\ VmIdle /\ DepIdle /\ MsIdle /\ LifeIdle /\ TxxIdle

\* case neofs.URIScheme: index := ...; neofs.Get(ctx, priv, u, Nodes[index])
NeoFSGet ==
    /\ nfPc = "index" /\ nfPanic = ""
    /\ IF nfNodes = 0
       THEN nfPanic' = "integer divide by zero" /\ UNCHANGED <<nfIndex, nfPc>>
       ELSE LET i == NeoFSIndex(nfId, nfAttempts, nfNodes) IN
            IF i < 0 \/ i >= nfNodes
            THEN nfPanic' = "index out of range" /\ nfIndex' = i /\ UNCHANGED nfPc
            ELSE nfIndex' = i /\ nfPc' = "locked" /\ UNCHANGED nfPanic
    /\ UNCHANGED <<nfId, nfNodes, nfAttempts>>
    /\ UNCHANGED notIdxVars

\* incTx.attempts++, and the request is processed again
NextAttempt ==
    /\ nfPc = "locked" /\ nfAttempts < MaxAttempts
    /\ nfAttempts' = nfAttempts + 1
    /\ nfPc' = "index"
    /\ UNCHANGED <<nfId, nfNodes, nfIndex, nfPanic>>
    /\ UNCHANGED notIdxVars

NextIdx ==
    \/ NeoFSGet
    \/ NextAttempt

SpecIdx == InitIdx /\ [][NextIdx]_vars

TypeOKIdx ==
    /\ nfId \in 0 .. (2^IdBits - 1) /\ nfNodes \in 0 .. MaxNodes
    /\ nfAttempts \in 0 .. MaxAttempts
    /\ nfPc \in {"index", "locked"}

(***************************************************************************)
(* Claims about the NeoFS node index (SpecIdx).                            *)
(***************************************************************************)
\* C28 (as stated): for every request id, attempt count and node list the
\* index is computed without failure, lies in 0..|nodes|-1 and is
\* (request_id + attempts) mod |nodes|.
C28_IndexInRange ==
    /\ nfPanic = ""
    /\ nfPc = "locked" =>
          /\ nfIndex \in 0 .. (nfNodes - 1)
          /\ nfIndex = (nfId + nfAttempts) % nfNodes

(***************************************************************************)
(* The native contract dispatcher (SpecCall): Call, OnPersist and          *)
(* PostPersist on one interop context.  The natives are 1..NumNatives in   *)
(* registration order; every native has the methods 0..NumMethods-1 at the *)
(* offsets of the same number.                                             *)
(***************************************************************************)
Natives == 1 .. NumNatives
CallFlags == {"ReadStates", "WriteStates"}
Triggers == {"OnPersist", "PostPersist", "Application"}
PersistKinds == {"OnPersist", "PostPersist"}

\* the method registered at an offset: flags, price, parameters, return type
MethodAt(off) ==
    [RequiredFlags |-> IF off = 0 THEN {"ReadStates"} ELSE CallFlags,
     Price |-> off + 1,
     Parameters |-> off,
     Void |-> (off % 2 = 1)]

\* c.Metadata().GetMethodByOffset(ip): ok
GetMethodByOffset(off) == off \in 0 .. (NumMethods - 1)

\* callflag.Has: all the required bits are set
Has(have, required) == required \subseteq have

\* vm.AddGas: the gas is added, and the sum must stay within the limit
AddGas(used, price, lim) == used + price <= lim

\* gas is charged before the call flags are looked at
CallResultGasFirst(ver, sh, off, cf, used, lim) ==
    IF ver # 0
    THEN [err |-> "not active", gas |-> used, popped |-> 0, ran |-> FALSE, pushed |-> FALSE]
    ELSE IF sh \notin Natives
    THEN [err |-> "not found", gas |-> used, popped |-> 0, ran |-> FALSE, pushed |-> FALSE]
    ELSE IF ~GetMethodByOffset(off)
    THEN [err |-> "method not found", gas |-> used, popped |-> 0, ran |-> FALSE,
          pushed |-> FALSE]
    ELSE IF ~AddGas(used, MethodAt(off).Price, lim)
    THEN [err |-> "gas limit exceeded", gas |-> used + MethodAt(off).Price, popped |-> 0,
          ran |-> FALSE, pushed |-> FALSE]
    ELSE IF ~Has(cf, MethodAt(off).RequiredFlags)
    THEN [err |-> "missing call flags", gas |-> used + MethodAt(off).Price, popped |-> 0,
          ran |-> FALSE, pushed |-> FALSE]
    ELSE [err |-> "nil", gas |-> used + MethodAt(off).Price,
          popped |-> MethodAt(off).Parameters, ran |-> TRUE,
          pushed |-> ~MethodAt(off).Void]

\* every hook runs whatever the hooks before it returned
HooksRunAll(fails) == [i \in 1 .. NumNatives |-> i]

\* Call after the pop of the version: the error returned (or "nil"), the gas
\* consumed, the arguments popped, handler run, result pushed
CallResult(ver, sh, off, cf, used, lim) ==
    IF ver # 0
    THEN [err |-> "not active", gas |-> used, popped |-> 0, ran |-> FALSE, pushed |-> FALSE]
    ELSE IF sh \notin Natives
    THEN [err |-> "not found", gas |-> used, popped |-> 0, ran |-> FALSE, pushed |-> FALSE]
    ELSE IF ~GetMethodByOffset(off)
    THEN [err |-> "method not found", gas |-> used, popped |-> 0, ran |-> FALSE,
          pushed |-> FALSE]
    ELSE IF ~Has(cf, MethodAt(off).RequiredFlags)
    THEN [err |-> "missing call flags", gas |-> used, popped |-> 0, ran |-> FALSE,
          pushed |-> FALSE]
    ELSE IF ~AddGas(used, MethodAt(off).Price, lim)
    THEN [err |-> "gas limit exceeded", gas |-> used + MethodAt(off).Price, popped |-> 0,
          ran |-> FALSE, pushed |-> FALSE]
    ELSE [err |-> "nil", gas |-> used + MethodAt(off).Price,
          popped |-> MethodAt(off).Parameters, ran |-> TRUE,
          pushed |-> ~MethodAt(off).Void]

\* the natives whose hook runs in one pass: registration order, up to and
\* with the first whose hook returns an error
HooksRun(fails) ==
    IF fails = {} THEN [i \in 1 .. NumNatives |-> i]
    ELSE [i \in 1 .. (CHOOSE n \in fails : \A o \in fails : n <= o) |-> i]

\* a pass over the natives: the hooks run and the error returned
PersistPass(kind, trig, fails) ==
    IF trig # kind
    THEN [ret |-> "must be triggered by system", run |-> <<>>]
    ELSE [ret |-> IF fails = {} THEN "nil" ELSE "hook error", run |-> HooksRun(fails)]

CallInit ==
    /\ cVersion \in 0 .. 1
    /\ cHash \in 0 .. NumNatives
    /\ cIP \in 0 .. NumMethods
    /\ cFlags \in SUBSET CallFlags
    /\ gasLimit \in 0 .. MaxGas
    /\ gasConsumed \in 0 .. 1
    /\ callRet = "pending" /\ argsPopped = 0 /\ handlerRan = FALSE /\ resultPushed = FALSE
    /\ trigger \in Triggers
    /\ hookFails \in SUBSET Natives
    /\ hookLog = <<>>
    /\ persistRet = [k \in PersistKinds |-> "pending"]

InitCall == OracleInit /\ ReqIdle /\ PoolIdle /\ BcIdle /\ ConsIdle /\ NativeIdle /\ MgmtInit /\ IdxIdle /\ CallInit /\ WitIdle /\ CwIdle /\ VmIdle /\ DepIdle /\ MsIdle /\ LifeIdle /\ TxxIdle

\* func Call(ic *interop.Context) error
Call ==
    /\ callRet = "pending"
    /\ LET r == CallResult(cVersion, cHash, cIP, cFlags, gasConsumed, gasLimit) IN
          /\ callRet' = r.err
          /\ gasConsumed' = r.gas
          /\ argsPopped' = r.popped
          /\ handlerRan' = r.ran
          /\ resultPushed' = r.pushed
    /\ UNCHANGED <<cVersion, cHash, cIP, cFlags, gasLimit, trigger, hookFails, hookLog,
                   persistRet>>
    /\ UNCHANGED notCallVars

\* the hooks of one pass, as entries of the log
Logged(kind, run) == [i \in 1 .. Len(run) |-> <<kind, run[i]>>]

\* func OnPersist(ic *interop.Context) error
OnPersist ==
    /\ persistRet["OnPersist"] = "pending"
    /\ LET r == PersistPass("OnPersist", trigger, hookFails) IN
          /\ persistRet' = [persistRet EXCEPT !["OnPersist"] = r.ret]
          /\ hookLog' = hookLog \o Logged("OnPersist", r.run)
    /\ UNCHANGED <<cVersion, cHash, cIP, cFlags, gasLimit, gasConsumed, callRet, argsPopped,
                   handlerRan, resultPushed, trigger, hookFails>>
    /\ UNCHANGED notCallVars

\* func PostPersist(ic *interop.Context) error
PostPersist ==
    /\ persistRet["PostPersist"] = "pending"
    /\ LET r == PersistPass("PostPersist", trigger, hookFails) IN
          /\ persistRet' = [persistRet EXCEPT !["PostPersist"] = r.ret]
          /\ hookLog' = hookLog \o Logged("PostPersist", r.run)
    /\ UNCHANGED <<cVersion, cHash, cIP, cFlags, gasLimit, gasConsumed, callRet, argsPopped,
                   handlerRan, resultPushed, trigger, hookFails>>
    /\ UNCHANGED notCallVars

NextCall ==
    \/ Call
    \/ OnPersist
    \/ PostPersist

SpecCall == InitCall /\ [][NextCall]_vars

TypeOKCall ==
    /\ callRet \in {"pending", "nil", "not active", "not found", "method not found",
                    "missing call flags", "gas limit exceeded"}
    /\ argsPopped \in 0 .. NumMethods
    /\ handlerRan \in BOOLEAN /\ resultPushed \in BOOLEAN
    /\ gasConsumed \in 0 .. (NumMethods + 1)
    /\ \A k \in PersistKinds :
          persistRet[k] \in {"pending", "nil", "hook error", "must be triggered by system"}
    /\ \A i \in 1 .. Len(hookLog) : hookLog[i] \in PersistKinds \X Natives

(***************************************************************************)
(* Claims about the native dispatcher (SpecCall).                          *)
(***************************************************************************)
\* the gates of Call, in the order of the claim
VersionGate == cVersion = 0
NativeGate == cHash \in Natives
MethodGate == cIP < NumMethods
FlagGate == (IF cIP = 0 THEN {"ReadStates"} ELSE CallFlags) \subseteq cFlags

\* C24: the handler of a native method runs only after all gates passed, in
\* the order version, native, method, call flags, gas; the first failing gate
\* gives the error; a failed call invokes no handler and pops no argument,
\* and a flag failure charges no gas.
C24_GatesInOrder ==
    /\ [](callRet # "pending" =>
            /\ handlerRan <=> callRet = "nil"
            /\ ~handlerRan => argsPopped = 0 /\ ~resultPushed
            /\ handlerRan => /\ VersionGate /\ NativeGate /\ MethodGate /\ FlagGate
                             /\ gasConsumed <= gasLimit
            /\ ~VersionGate <=> callRet = "not active"
            /\ (VersionGate /\ ~NativeGate) <=> callRet = "not found"
            /\ (VersionGate /\ NativeGate /\ ~MethodGate) <=> callRet = "method not found"
            /\ (VersionGate /\ NativeGate /\ MethodGate /\ ~FlagGate)
                  <=> callRet = "missing call flags"
            /\ callRet = "gas limit exceeded" => gasConsumed > gasLimit)
    /\ [][(callRet = "pending" /\ callRet' # "pending") =>
            /\ callRet' \in {"not active", "not found", "method not found",
                             "missing call flags"} => gasConsumed' = gasConsumed
            /\ callRet' \in {"nil", "gas limit exceeded"} => gasConsumed' = gasConsumed + cIP + 1
            /\ callRet' = "nil" => argsPopped' = cIP]_vars

\* C24 witness: every gate but the last passed: the price crossed the gas
\* limit, the handler did not run and no argument was popped.
C24_Witness ==
    /\ callRet = "gas limit exceeded" /\ ~handlerRan /\ argsPopped = 0
    /\ VersionGate /\ NativeGate /\ MethodGate /\ FlagGate

\* the natives of the hooks of one kind in the log, in order
HooksOf(kind) ==
    LET RECURSIVE Pick(_)
        Pick(i) == IF i > Len(hookLog) THEN <<>>
                   ELSE IF hookLog[i][1] = kind THEN <<hookLog[i][2]>> \o Pick(i + 1)
                   ELSE Pick(i + 1)
    IN Pick(1)

\* C25: OnPersist (PostPersist) returns an error and runs no hook unless the
\* trigger is OnPersist (PostPersist); with the matching trigger the hooks
\* run in registration order, the first hook error is returned and the
\* hooks of the natives after it do not run.
C25_PersistHooks ==
    \A k \in PersistKinds :
        /\ persistRet[k] = "pending" => HooksOf(k) = <<>>
        /\ persistRet[k] # "pending" =>
              LET run == HooksOf(k) IN
              IF trigger # k
              THEN persistRet[k] = "must be triggered by system" /\ run = <<>>
              ELSE /\ \A i \in 1 .. Len(run) : run[i] = i
                   /\ \A i \in 1 .. (Len(run) - 1) : i \notin hookFails
                   /\ IF persistRet[k] = "nil"
                      THEN Len(run) = NumNatives /\ hookFails = {}
                      ELSE /\ persistRet[k] = "hook error"
                           /\ Len(run) >= 1 /\ Len(run) \in hookFails

\* C25 witness: PostPersist at its trigger stopped at the first native: the
\* hook of the first native failed and the hooks after it did not run.
C25_Witness ==
    /\ trigger = "PostPersist" /\ persistRet["PostPersist"] = "hook error"
    /\ HooksOf("PostPersist") = <<1>> /\ NumNatives > 1
    /\ persistRet["OnPersist"] = "must be triggered by system"

(***************************************************************************)
(* Block commit of the consensus service (SpecWit).  The validators of the *)
(* dBFT context are 0..wN-1 in the order of their keys (NewService sorts   *)
(* them); the signature of validator j is written j.  The validators are   *)
(* BLS keys: NewService builds them with crypto.NewBLSPublicKey.           *)
(***************************************************************************)
\* dbft.Context.M(): N - F with F = (N - 1) / 3
ContextM(n) == n - ((n - 1) \div 3)

\* the validators whose commit payload is present and of the current view
Signers(commits, view) == {j \in DOMAIN commits : commits[j] # NoCommit /\ commits[j] = view}

\* the mask of getBlockWitnessBLS: bit (n-1-j) for every index j
RECURSIVE Mask(_, _)
Mask(indices, n) ==
    IF indices = {} THEN 0
    ELSE LET j == CHOOSE x \in indices : TRUE IN 2^(n - j - 1) + Mask(indices \ {j}, n)

\* service.getBlockWitnessBLS: nil when the signatures do not aggregate
GetBlockWitnessBLS(commits, view, n, aggOK) ==
    IF ~aggOK THEN NilWitness
    ELSE [kind |-> "bls", m |-> ContextM(n), sigs |-> Signers(commits, view),
          mask |-> Mask(Signers(commits, view), n)]

\* the first k elements of a set of numbers, in ascending order
RECURSIVE FirstAscending(_, _)
FirstAscending(set, k) ==
    IF set = {} \/ k = 0 THEN <<>>
    ELSE LET lo == CHOOSE x \in set : \A y \in set : x <= y
         IN <<lo>> \o FirstAscending(set \ {lo}, k - 1)

\* convertKeys: k.(*publicKey) of every validator
ConvertKeys(keyKind, n) == IF n > 0 /\ keyKind # "publicKey" THEN "panic" ELSE "ok"

\* service.getBlockWitness
GetBlockWitness(commits, view, n, keyKind) ==
    IF ConvertKeys(keyKind, n) = "panic" THEN [kind |-> "panic"]
    ELSE IF ContextM(n) <= 1 \/ ContextM(n) > n THEN NilWitness
    ELSE [kind |-> "multisig", m |-> ContextM(n),
          invoc |-> FirstAscending(Signers(commits, view), ContextM(n))]

WitInit ==
    /\ wN \in 1 .. MaxVals
    /\ wView \in 0 .. MaxView
    /\ wCommits \in [0 .. (wN - 1) -> {NoCommit} \cup (0 .. MaxView)]
    /\ wAggOK \in BOOLEAN /\ wAddOK \in BOOLEAN
    /\ wScript = NoWitness /\ wLog = <<>> /\ wPanic = "" /\ wClassic = NoWitness

InitWit == OracleInit /\ ReqIdle /\ PoolIdle /\ BcIdle /\ ConsIdle /\ NativeIdle /\ MgmtInit /\ IdxIdle /\ CallIdle /\ WitInit /\ CwIdle /\ VmIdle /\ DepIdle /\ MsIdle /\ LifeIdle /\ TxxIdle

\* service.processBlock, called by dBFT once M validators committed
ProcessBlock ==
    /\ wLog = <<>> /\ wPanic = ""
    /\ Cardinality(Signers(wCommits, wView)) >= ContextM(wN)
    /\ LET w == GetBlockWitnessBLS(wCommits, wView, wN, wAggOK) IN
          IF w = NilWitness
          THEN /\ wPanic' = "nil pointer dereference"
               /\ wLog' = <<"getBlockWitnessBLS">>
               /\ UNCHANGED wScript
          ELSE /\ wScript' = w
               /\ wLog' = <<"getBlockWitnessBLS", "Script", "AddBlock">> \o
                              (IF wAddOK THEN <<"RelayBlock">> ELSE <<"Warnf">>)
               /\ UNCHANGED wPanic
    /\ UNCHANGED <<wN, wView, wCommits, wAggOK, wAddOK, wClassic>>
    /\ UNCHANGED notWitVars

\* a call of service.getBlockWitness on the context
CallGetBlockWitness ==
    /\ wClassic = NoWitness /\ wPanic = ""
    /\ LET w == GetBlockWitness(wCommits, wView, wN, "BLSPublicKey") IN
          IF w.kind = "panic"
          THEN wPanic' = "interface conversion" /\ UNCHANGED wClassic
          ELSE wClassic' = w /\ UNCHANGED wPanic
    /\ UNCHANGED <<wN, wView, wCommits, wAggOK, wAddOK, wScript, wLog>>
    /\ UNCHANGED notWitVars

NextWit ==
    \/ ProcessBlock
    \/ CallGetBlockWitness

SpecWit == InitWit /\ [][NextWit]_vars

TypeOKWit ==
    /\ wN \in 1 .. MaxVals /\ wView \in 0 .. MaxView
    /\ wPanic \in {"", "nil pointer dereference", "interface conversion"}
    /\ wScript.kind \in {"none", "bls"}
    /\ wClassic.kind \in {"none", "nil", "multisig"}

(***************************************************************************)
(* Claims about block commit (SpecWit).                                    *)
(***************************************************************************)
\* C29 (as stated): processBlock sets the witness of the block before it
\* calls AddBlock, calls RelayBlock iff AddBlock accepted the block, and
\* completes without failure whether the block is accepted or rejected.
C29_RelayIffAdded ==
    wLog # <<>> =>
        /\ wPanic = ""
        /\ wScript.kind = "bls"
        /\ wLog = <<"getBlockWitnessBLS", "Script", "AddBlock">> \o
                      (IF wAddOK THEN <<"RelayBlock">> ELSE <<"Warnf">>)

\* C30 (as stated): the witness holds the signature of a validator iff its
\* commit payload of the current view is present; the classical builder
\* returns at most M signatures in ascending key order, the BLS builder sets
\* bit (n-1-j) of the mask exactly for the included validators j.
C30_WitnessFromCurrentView ==
    /\ wPanic # "interface conversion"
    /\ wClassic # NoWitness =>
          /\ wClassic.kind = "multisig"
          /\ Len(wClassic.invoc) <= wClassic.m
          /\ \A i \in 1 .. (Len(wClassic.invoc) - 1) : wClassic.invoc[i] < wClassic.invoc[i + 1]
          /\ \A j \in 0 .. (wN - 1) :
                (\E i \in 1 .. Len(wClassic.invoc) : wClassic.invoc[i] = j)
                    <=> (wCommits[j] = wView)
    /\ wScript # NoWitness =>
          \A j \in 0 .. (wN - 1) :
              /\ j \in wScript.sigs <=> wCommits[j] = wView
              /\ ((wScript.mask \div 2^(wN - 1 - j)) % 2 = 1) <=> j \in wScript.sigs

(***************************************************************************)
(* runtime.CheckWitness (SpecCw).  The transaction has one signer, the      *)
(* account "signer"; the scripts are the entry script and the contracts    *)
(* c1 (deployed, in the group g1) and c2 (deployed, in no group); the      *)
(* entry script is no deployed contract.                                   *)
(***************************************************************************)
NoCaller == "none"
ScriptHashes == {"entry", "c1", "c2"}
Accounts == {"signer", "other"} \cup ScriptHashes
WitnessScopes == {"None", "CalledByEntry", "CustomContracts", "CustomGroups", "Global"}
CwArgs ==
    {[kind |-> "bad", acct |-> "none"]} \cup [kind : {"hash", "key"}, acct : Accounts]

\* the contracts of the DAO
Deployed == {"c1", "c2"}

\* Manifest.Groups of a deployed contract
ManifestGroups(sh) == IF sh = "c1" THEN {"g1"} ELSE {}

\* the scope check of the signer of account hp
CheckScope(hp, scope, allowedContracts, allowedGroups, calling, current, allowStates) ==
    IF hp # "signer" THEN "false"
    ELSE IF scope = "Global" THEN "true"
    ELSE IF scope = "CalledByEntry"
    THEN IF calling = NoCaller \/ calling = "entry" THEN "true" ELSE "false"
    ELSE IF scope = "CustomContracts"
    THEN IF current \in allowedContracts THEN "true" ELSE "false"
    ELSE IF scope = "CustomGroups"
    THEN IF ~allowStates THEN "error"
         ELSE IF calling = NoCaller THEN "false"
         ELSE IF calling \notin Deployed THEN "error"
         ELSE IF ManifestGroups(calling) \cap allowedGroups # {} THEN "true" ELSE "false"
    ELSE "false"

\* runtime.CheckWitness: the argument, the calling script hash, the container,
\* the scope
CheckWitnessResult(arg, container, scope, contrs, groups, calling, current, allowStates) ==
    IF arg.kind = "bad" THEN "error"
    ELSE IF calling # NoCaller /\ arg.acct = calling THEN "true"
    ELSE IF container # "tx" THEN "error"
    ELSE CheckScope(arg.acct, scope, contrs, groups, calling, current, allowStates)

CwInit ==
    /\ cwArg \in CwArgs
    /\ cwContainer \in {"tx", "block"}
    /\ cwScope \in WitnessScopes
    /\ cwAllowedContracts \in SUBSET {"c1", "c2"}
    /\ cwAllowedGroups \in SUBSET {"g1", "g2"}
    /\ cwCalling \in {NoCaller} \cup ScriptHashes
    /\ cwCurrent \in ScriptHashes
    /\ (cwCalling = NoCaller) <=> (cwCurrent = "entry")
    /\ cwFlags \in BOOLEAN
    /\ cwResult = "pending"

InitCw == OracleInit /\ ReqIdle /\ PoolIdle /\ BcIdle /\ ConsIdle /\ NativeIdle /\ MgmtInit /\ IdxIdle /\ CallIdle /\ WitIdle /\ CwInit /\ VmIdle /\ DepIdle /\ MsIdle /\ LifeIdle /\ TxxIdle

\* func CheckWitness(ic *interop.Context) error
CheckWitness ==
    /\ cwResult = "pending"
    /\ cwResult' = CheckWitnessResult(cwArg, cwContainer, cwScope, cwAllowedContracts,
                                      cwAllowedGroups, cwCalling, cwCurrent, cwFlags)
    /\ UNCHANGED <<cwArg, cwContainer, cwScope, cwAllowedContracts, cwAllowedGroups,
                   cwCalling, cwCurrent, cwFlags>>
    /\ UNCHANGED notCwVars

NextCw ==
    \/ CheckWitness

SpecCw == InitCw /\ [][NextCw]_vars

TypeOKCw ==
    /\ cwResult \in {"pending", "true", "false", "error"}
    /\ cwArg \in CwArgs /\ cwScope \in WitnessScopes

(***************************************************************************)
(* Claims about CheckWitness (SpecCw).                                     *)
(***************************************************************************)
\* C23 (as stated): for the signer of the transaction None gives false,
\* Global true, CalledByEntry true in the entry script, CustomContracts true
\* only with the current script hash in the allow-list, CustomGroups true
\* only when the current contract has a group key of the allow-list and
\* AllowStates is held; the calling script hash is always witnessed; a bad
\* argument or a container that is no transaction is an error.
C23_CheckWitnessByScope ==
    cwResult # "pending" =>
        /\ cwArg.kind = "bad" => cwResult = "error"
        /\ (cwArg.kind # "bad" /\ cwCalling # NoCaller /\ cwArg.acct = cwCalling)
              => cwResult = "true"
        /\ (cwArg.kind # "bad" /\ cwArg.acct # cwCalling /\ cwContainer # "tx")
              => cwResult = "error"
        /\ (cwArg.kind # "bad" /\ cwArg.acct = "signer" /\ cwContainer = "tx") =>
              /\ cwScope = "None" => cwResult = "false"
              /\ cwScope = "Global" => cwResult = "true"
              /\ (cwScope = "CalledByEntry" /\ cwCurrent = "entry") => cwResult = "true"
              /\ (cwScope = "CustomContracts" /\ cwResult = "true")
                    => cwCurrent \in cwAllowedContracts
              /\ (cwScope = "CustomGroups" /\ cwResult = "true")
                    => /\ cwFlags
                       /\ cwCurrent \in Deployed
                       /\ ManifestGroups(cwCurrent) \cap cwAllowedGroups # {}

(***************************************************************************)
(* An inter-contract call (SpecVm): the contract TestAux, with 42 on its   *)
(* stack, calls a method of the contract TestMain.  Stack items are        *)
(* numbers, NullItem is stackitem.Null.                                    *)
(***************************************************************************)
\* the methods of TestMain: parameters, return type, instructions before RET
Methods ==
    [add           |-> [params |-> 2, void |-> FALSE, ops |-> <<"ADD">>],
     ret7          |-> [params |-> 0, void |-> FALSE, ops |-> <<"PUSH7">>],
     drop          |-> [params |-> 0, void |-> TRUE, ops |-> <<"DROP">>],
     _initialize   |-> [params |-> 0, void |-> TRUE, ops |-> <<"INITSSLOT">>],
     invalidReturn |-> [params |-> 0, void |-> FALSE, ops |-> <<"PUSH1", "PUSH2">>],
     justReturn    |-> [params |-> 0, void |-> TRUE, ops |-> <<>>]]

\* the method arguments tried: the declared ones, an undeclared one, an item
\* that is no string
MethodArgs == DOMAIN Methods \cup {"sub", "interop"}

\* the methods the manifest of TestAux permits
PermAux == {"add", "drop", "add3", "invalidReturn", "justReturn", "getValue"}

\* the permissions tried: those of TestAux, a wildcard, none
Perms == {PermAux, MethodArgs, {}}

\* the caller may call the method
PermittedAny(perm, method) == TRUE

\* the caller may call the method
Permitted(perm, method) == method \in perm

\* any number of items may be left at RET
ReturnAny(len, void) == TRUE

\* the items left at RET are the declared return values
ReturnOK(len, void) == len = (IF void THEN 0 ELSE 1)

\* System.Contract.Call accepts the call
CallAllowed(hashArg, method, nargs, perm) ==
    /\ hashArg = "callee"
    /\ method \in DOMAIN Methods
    /\ method # "_initialize"
    /\ Permitted(perm, method)
    /\ nargs # NotArray
    /\ nargs = Methods[method].params

\* one instruction on an evaluation stack: the stack after, "fault" if the
\* stack holds too few items
Exec(op, stack) ==
    IF op = "ADD"
    THEN IF Len(stack) < 2 THEN "fault"
         ELSE SubSeq(stack, 1, Len(stack) - 2) \o
                  <<stack[Len(stack) - 1] + stack[Len(stack)]>>
    ELSE IF op = "DROP"
    THEN IF Len(stack) < 1 THEN "fault" ELSE SubSeq(stack, 1, Len(stack) - 1)
    ELSE IF op = "PUSH7" THEN Append(stack, 7)
    ELSE IF op = "PUSH1" THEN Append(stack, 1)
    ELSE IF op = "PUSH2" THEN Append(stack, 2)
    ELSE stack

VmInit ==
    /\ vHash \in {"callee", "malformed", "unknown"}
    /\ vMethod \in MethodArgs
    /\ vArgs \in {NotArray} \cup (0 .. 2)
    /\ vPerm \in Perms
    /\ vState = "loaded" /\ callerStack = <<42>> /\ calleeStack = <<>> /\ vOps = <<>>
    /\ vExecuted = 0 /\ vRetLen = NoLen

InitVm == OracleInit /\ ReqIdle /\ PoolIdle /\ BcIdle /\ ConsIdle /\ NativeIdle /\ MgmtInit /\ IdxIdle /\ CallIdle /\ WitIdle /\ CwIdle /\ VmInit /\ DepIdle /\ MsIdle /\ LifeIdle /\ TxxIdle

\* contract.Call: the checks, then the context of the callee with the
\* arguments on a stack of its own
ContractCall ==
    /\ vState = "loaded"
    /\ IF CallAllowed(vHash, vMethod, vArgs, vPerm)
       THEN /\ vState' = "running"
            /\ calleeStack' = [i \in 1 .. vArgs |-> i]
            /\ vOps' = Methods[vMethod].ops
       ELSE /\ vState' = "fault"
            /\ UNCHANGED <<calleeStack, vOps>>
    /\ UNCHANGED <<vHash, vMethod, vArgs, vPerm, callerStack, vExecuted, vRetLen>>
    /\ UNCHANGED notVmVars

\* one instruction of the callee
CalleeStep ==
    /\ vState = "running" /\ vOps # <<>>
    /\ LET after == Exec(Head(vOps), calleeStack) IN
          IF after = "fault"
          THEN vState' = "fault" /\ UNCHANGED <<calleeStack, vOps>>
          ELSE calleeStack' = after /\ vOps' = Tail(vOps) /\ UNCHANGED vState
    /\ vExecuted' = vExecuted + 1
    /\ UNCHANGED <<vHash, vMethod, vArgs, vPerm, callerStack, vRetLen>>
    /\ UNCHANGED notVmVars

\* RET of the callee: the count of return values is checked and the values
\* (Null for a void method) are pushed for the caller
CalleeReturn ==
    /\ vState = "running" /\ vOps = <<>>
    /\ vRetLen' = Len(calleeStack)
    /\ IF ReturnOK(Len(calleeStack), Methods[vMethod].void)
       THEN /\ vState' = "halt"
            /\ callerStack' = callerStack \o
                   (IF Methods[vMethod].void THEN <<NullItem>> ELSE calleeStack)
       ELSE /\ vState' = "fault"
            /\ UNCHANGED callerStack
    /\ UNCHANGED <<vHash, vMethod, vArgs, vPerm, calleeStack, vOps, vExecuted>>
    /\ UNCHANGED notVmVars

NextVm ==
    \/ ContractCall
    \/ CalleeStep
    \/ CalleeReturn

SpecVm == InitVm /\ [][NextVm]_vars

TypeOKVm ==
    /\ vState \in {"loaded", "running", "halt", "fault"}
    /\ vExecuted \in 0 .. 2
    /\ vRetLen \in {NoLen} \cup (0 .. 2)
    /\ Len(callerStack) \in 1 .. 3

(***************************************************************************)
(* Claims about the inter-contract call (SpecVm).                          *)
(***************************************************************************)
\* C21: the callee runs on a stack of its own: its instructions leave the
\* stack of the caller as it was, a pop beyond its own items faults, and at
\* RET it must hold exactly the declared return values (one, or none for a
\* void method, for which the caller gets Null); any other count faults.
C21_IsolatedStack ==
    /\ [](Len(callerStack) >= 1 /\ callerStack[1] = 42)
    /\ [](vState = "halt" =>
             /\ vRetLen = (IF Methods[vMethod].void THEN 0 ELSE 1)
             /\ Len(callerStack) = 2
             /\ Methods[vMethod].void => callerStack[2] = NullItem)
    /\ []((vRetLen # NoLen /\ vRetLen # (IF Methods[vMethod].void THEN 0 ELSE 1)) =>
             vState = "fault" /\ callerStack = <<42>>)
    /\ [][(vState = "running" /\ vOps # <<>>) =>
             /\ callerStack' = callerStack
             /\ (Head(vOps) = "DROP" /\ calleeStack = <<>>) => vState' = "fault"]_vars

\* C21 witness: drop, called with no argument, faulted at its DROP and the
\* 42 of the caller is still there.
C21_Witness ==
    /\ vMethod = "drop" /\ vState = "fault" /\ vExecuted = 1 /\ callerStack = <<42>>

\* the call must fault before any instruction of the callee
BadCall ==
    \/ vHash # "callee"
    \/ vMethod \notin DOMAIN Methods
    \/ vMethod = "_initialize"
    \/ vMethod \notin vPerm
    \/ vArgs = NotArray
    \/ vArgs # Methods[vMethod].params

\* C22: a call of a method the manifest of the caller does not permit, of a
\* malformed or unknown hash, of a missing method, with arguments that are
\* no array or of the wrong count, or of _initialize faults and no
\* instruction of the callee is executed.
C22_BadCallFaults ==
    (vState # "loaded" /\ BadCall) =>
        /\ vState = "fault" /\ vExecuted = 0 /\ calleeStack = <<>> /\ vRetLen = NoLen
        /\ callerStack = <<42>>

\* C22 witness: ret7 exists and takes no argument, but TestAux is not
\* permitted to call it: the call faulted.
C22_Witness ==
    /\ vHash = "callee" /\ vMethod = "ret7" /\ vArgs = 0 /\ vPerm = PermAux
    /\ vState = "fault" /\ vExecuted = 0

(***************************************************************************)
(* _deploy at creation and update (SpecDep).  The contract is TestMain or  *)
(* the same script without a _deploy method; its methods putValue and      *)
(* getValue write and read the storage item "initial".                     *)
(***************************************************************************)
\* _deploy always stores "create"
DeployValueCreate(isUpdate) == "create"

\* the _deploy method of TestMain: JMPIF over putValue("create") to
\* putValue("update")
DeployValue(isUpdate) == IF isUpdate THEN "update" ELSE "create"

\* the effect of the creation or update of a contract on storage and on the
\* log of _deploy calls: _deploy(isUpdate) runs if the manifest declares it
AfterDeploy(declares, isUpdate, storage, calls) ==
    IF declares
    THEN [storage |-> DeployValue(isUpdate), calls |-> Append(calls, isUpdate)]
    ELSE [storage |-> storage, calls |-> calls]

DepInit ==
    /\ dContract = NoDeployed /\ dStorage = "" /\ dCalls = <<>>
    /\ dLast = [op |-> "none", ok |-> FALSE] /\ dGot = "" /\ dOps = 0

InitDep == OracleInit /\ ReqIdle /\ PoolIdle /\ BcIdle /\ ConsIdle /\ NativeIdle /\ MgmtInit /\ IdxIdle /\ CallIdle /\ WitIdle /\ CwIdle /\ VmIdle /\ DepInit /\ MsIdle /\ LifeIdle /\ TxxIdle

\* contractCreate: fails if the contract exists
ContractCreate(declares) ==
    /\ dOps < MaxOps
    /\ IF dContract # NoDeployed
       THEN /\ dLast' = [op |-> "create", ok |-> FALSE]
            /\ UNCHANGED <<dContract, dStorage, dCalls>>
       ELSE LET r == AfterDeploy(declares, FALSE, dStorage, dCalls) IN
            /\ dContract' = [declares |-> declares, updates |-> 0]
            /\ dStorage' = r.storage
            /\ dCalls' = r.calls
            /\ dLast' = [op |-> "create", ok |-> TRUE]
    /\ dOps' = dOps + 1
    /\ UNCHANGED dGot
    /\ UNCHANGED notDepVars

\* contractUpdate with a new script: fails if there is no contract
ContractUpdate(declares) ==
    /\ dOps < MaxOps
    /\ IF dContract = NoDeployed
       THEN /\ dLast' = [op |-> "update", ok |-> FALSE]
            /\ UNCHANGED <<dContract, dStorage, dCalls>>
       ELSE LET r == AfterDeploy(declares, TRUE, dStorage, dCalls) IN
            /\ dContract' = [declares |-> declares, updates |-> dContract.updates + 1]
            /\ dStorage' = r.storage
            /\ dCalls' = r.calls
            /\ dLast' = [op |-> "update", ok |-> TRUE]
    /\ dOps' = dOps + 1
    /\ UNCHANGED dGot
    /\ UNCHANGED notDepVars

\* a call of putValue of the contract
PutValue(val) ==
    /\ dOps < MaxOps /\ dContract # NoDeployed
    /\ dStorage' = val
    /\ dLast' = [op |-> "putValue", ok |-> TRUE]
    /\ dOps' = dOps + 1
    /\ UNCHANGED <<dContract, dCalls, dGot>>
    /\ UNCHANGED notDepVars

\* a call of getValue of the contract
GetValue ==
    /\ dOps < MaxOps /\ dContract # NoDeployed
    /\ dGot' = dStorage
    /\ dLast' = [op |-> "getValue", ok |-> TRUE]
    /\ dOps' = dOps + 1
    /\ UNCHANGED <<dContract, dStorage, dCalls>>
    /\ UNCHANGED notDepVars

NextDep ==
    \/ \E declares \in BOOLEAN : ContractCreate(declares)
    \/ \E declares \in BOOLEAN : ContractUpdate(declares)
    \/ \E val \in {"initial", "other"} : PutValue(val)
    \/ GetValue

SpecDep == InitDep /\ [][NextDep]_vars

TypeOKDep ==
    /\ dStorage \in {"", "create", "update", "initial", "other"}
    /\ dGot \in {"", "create", "update", "initial", "other"}
    /\ dOps \in 0 .. MaxOps
    /\ Len(dCalls) <= MaxOps

(***************************************************************************)
(* Claims about _deploy (SpecDep).                                         *)
(***************************************************************************)
\* C26: the creation of a contract that declares _deploy runs _deploy with
\* isUpdate = false, an update to a script that declares it runs _deploy
\* with isUpdate = true, and the next call of getValue returns what _deploy
\* stored: "create" after the creation, "update" after the update.
C26_DeployCalled ==
    /\ [][(dLast'.op = "create" /\ dLast'.ok /\ dOps' # dOps /\ dContract'.declares) =>
             /\ dCalls' = Append(dCalls, FALSE)
             /\ dStorage' = "create"]_vars
    /\ [][(dLast'.op = "update" /\ dLast'.ok /\ dOps' # dOps /\ dContract'.declares) =>
             /\ dCalls' = Append(dCalls, TRUE)
             /\ dStorage' = "update"]_vars
    /\ [][(dOps' # dOps /\ ~(dLast'.ok /\ dLast'.op \in {"create", "update"}
                                /\ dContract'.declares)) =>
             dCalls' = dCalls]_vars
    /\ [][(dLast'.op = "getValue" /\ dOps' # dOps /\ dLast.ok /\ dContract.declares
              /\ dLast.op \in {"create", "update"}) =>
             dGot' = dLast.op]_vars

\* C26 witness: a contract with _deploy was created and updated, _deploy ran
\* with false and then with true, and getValue returned "update".
C26_Witness ==
    /\ dCalls = <<FALSE, TRUE>> /\ dGot = "update" /\ dLast.op = "getValue"
    /\ dContract.declares /\ dContract.updates = 1

(***************************************************************************)
(* smartcontract.CreateMultiSigRedeemScript (SpecMs).  Public keys are the *)
(* numbers 1..MaxKeys, ordered as numbers; a script is the sequence of the *)
(* items emitted.                                                          *)
(***************************************************************************)
\* a list with pairwise different elements
Distinct(seq) == \A i, j \in 1 .. Len(seq) : i # j => seq[i] # seq[j]

\* the key lists of up to MaxKeys different keys, in every order
KeyLists == {ks \in UNION {[1 .. n -> 1 .. MaxKeys] : n \in 0 .. MaxKeys} : Distinct(ks)}

\* sort.Sort(publicKeys): insertion of the head into the sorted tail
RECURSIVE SortKeys(_)
SortKeys(seq) ==
    IF seq = <<>> THEN <<>>
    ELSE LET rest == SortKeys(Tail(seq))
             below == SelectSeq(rest, LAMBDA k : k < Head(seq))
             above == SelectSeq(rest, LAMBDA k : k >= Head(seq))
         IN below \o <<Head(seq)>> \o above

\* func CreateMultiSigRedeemScript(m int, publicKeys keys.PublicKeys) ([]byte, error)
MultiSigScript(m, ks) ==
    IF m <= 1 THEN [err |-> "m cannot be smaller or equal to 1", script |-> <<>>]
    ELSE IF m > Len(ks) THEN [err |-> "m is higher than the number of keys", script |-> <<>>]
    ELSE IF m > MaxSigs THEN [err |-> "exceeds maximum", script |-> <<>>]
    ELSE [err |-> "nil",
          script |-> <<m>> \o SortKeys(ks) \o <<Len(ks), "CHECKMULTISIG">>]

MsInit ==
    /\ msKeys \in KeyLists
    /\ msM \in 0 .. (MaxKeys + 1)
    /\ msRet = NoScript

InitMs == OracleInit /\ ReqIdle /\ PoolIdle /\ BcIdle /\ ConsIdle /\ NativeIdle /\ MgmtInit /\ IdxIdle /\ CallIdle /\ WitIdle /\ CwIdle /\ VmIdle /\ DepIdle /\ MsInit /\ LifeIdle /\ TxxIdle

\* a call of CreateMultiSigRedeemScript
CreateMultiSigRedeemScript ==
    /\ msRet = NoScript
    /\ msRet' = MultiSigScript(msM, msKeys)
    /\ UNCHANGED <<msM, msKeys>>
    /\ UNCHANGED notMsVars

NextMs ==
    \/ CreateMultiSigRedeemScript

SpecMs == InitMs /\ [][NextMs]_vars

TypeOKMs ==
    /\ msM \in 0 .. (MaxKeys + 1) /\ msKeys \in KeyLists
    /\ msRet.err \in {"pending", "nil", "m cannot be smaller or equal to 1",
                      "m is higher than the number of keys", "exceeds maximum"}

(***************************************************************************)
(* Claims about the multi-signature script (SpecMs).                       *)
(***************************************************************************)
\* the keys of a list, as a set
KeySet(ks) == {ks[i] : i \in 1 .. Len(ks)}

\* C31 (as stated): the call fails exactly when m <= 1, m > len(keys) or m
\* is over the maximum; otherwise the script is m, the keys in ascending
\* order, len(keys), CHECKMULTISIG, the same for every order of the same
\* keys; and the script is produced for every committee of n >= 1 keys with
\* m = n - (n-1)/2.
C31_MultiSigScript ==
    msRet # NoScript =>
        /\ msRet.err # "nil" <=> (msM <= 1 \/ msM > Len(msKeys) \/ msM > MaxSigs)
        /\ msRet.err = "nil" =>
              /\ Len(msRet.script) = Len(msKeys) + 3
              /\ msRet.script[1] = msM
              /\ \A i \in 1 .. Len(msKeys) : msRet.script[i + 1] \in KeySet(msKeys)
              /\ \A i \in 1 .. (Len(msKeys) - 1) : msRet.script[i + 1] < msRet.script[i + 2]
              /\ msRet.script[Len(msKeys) + 2] = Len(msKeys)
              /\ msRet.script[Len(msKeys) + 3] = "CHECKMULTISIG"
              /\ \A other \in KeyLists :
                    KeySet(other) = KeySet(msKeys) =>
                        MultiSigScript(msM, other).script = msRet.script
        /\ (Len(msKeys) >= 1 /\ msM = Len(msKeys) - ((Len(msKeys) - 1) \div 2))
              => msRet.err = "nil"

(***************************************************************************)
(* Claims about the entries and the requests still queued (Spec).          *)
(***************************************************************************)
\* C36 (as stated): isSent, attempts, time, tx, backupTx and the signature
\* sets of an entry are read and written only by a goroutine that holds the
\* entry's lock: a goroutine at the check of isSent of processFailedRequest
\* or inside one of the two updating sections holds the lock of its entry.
C36_FieldsUnderLock ==
    \A p \in Procs : pc[p] \in {"fchk", "crit", "fcrit"} => heap[ent[p]].lock = p

\* C37 (as stated): once the ticker dropped a request id for exceeding
\* MaxTaskTimeout, no pass of processRequest started later obtains an entry
\* for it: getResponse(id, true) never recreates the entry, however many
\* ticks passed since.
C37_ExpiredNotRecreated ==
    [][\A p \in Procs :
          ~(/\ pc[p] = "get" /\ pc'[p] = "fetch"
            /\ req[p].id \in expired /\ ~Present(req[p].id))]_vars

\* C38 (as stated): after RemoveRequests(ids) returned, an id of the call is
\* not in the pending map before Start, and after Start no worker takes a
\* queued copy of it past getResponse, and nothing is handed to
\* OnTransaction for it.
C38_RemovedNotProcessed ==
    /\ [](~running => gone \cap pending = {})
    /\ [][\A w \in Workers :
            ~(pc[w] = "get" /\ pc'[w] = "fetch" /\ req[w].id \in gone)]_vars
    /\ [][\A id \in gone : nSent'[id] = nSent[id]]_vars

\* C39: a request taken from the request channel while no oracle account is
\* set is discarded: the worker stays in its loop, no pass starts, the table
\* and the entries do not change, nothing is handed to OnTransaction and
\* nothing is queued for it; ProcessRequestsInternal without an account
\* changes nothing either; the ticker re-enqueues only ids that have an
\* entry.
C39_NoAccountDiscards ==
    [][/\ (~currAccount /\ requestCh # <<>> /\ requestCh' = Tail(requestCh))
            => UNCHANGED <<tblVars, procVars, histVars, dispVars>>
       /\ (~currAccount /\ icalls' # icalls)
            => UNCHANGED <<tblVars, procVars, histVars, dispVars, requestCh>>
       /\ \A r \in dq' \ dq : ~r.body => Present(r.id)]_vars

\* C39 witness: the service runs without an account, every added request
\* went through the request channel, no pass is under way, and there is no
\* entry, no drop and no transaction for any of them
C39_Witness ==
    /\ running /\ ~currAccount /\ added = Ids /\ gone = {} /\ expired = {}
    /\ ~requestMap.full /\ dq = {} /\ requestCh = <<>> /\ icalls = 0
    /\ \A p \in Procs : pc[p] = "idle"
    /\ \A id \in Ids : ~Present(id) /\ nSent[id] = 0

(***************************************************************************)
(* The life cycle of the service (SpecLife): Start, start(), AddRequests,  *)
(* RemoveRequests, the dispatcher loop, the workers, Shutdown.  A mutex    *)
(* section that ends in the function that began it is one step.            *)
(***************************************************************************)
AlreadyRunningNever(r) == FALSE
MtxFreeAlways(mtx) == TRUE
\* o.respMtx.Lock() returns when nobody holds the mutex
MtxFree(mtx) == mtx = "free"

\* if o.running { o.respMtx.Unlock(); return }
AlreadyRunning(r) == r

\* a worker exists once start() launched it
Launched(w) == w <= started

\* a goroutine calls Start()
StartCall(c) ==
    /\ spc[c] \in {"idle", "done"}
    /\ spc' = [spc EXCEPT ![c] = "lock"]
    /\ UNCHANGED <<lifeRest, running, pending, requestMap, added, requestCh, dq, pc, req,
                   started, respMtx, apc, areqs, gpc, entries, handed, queued, early, stored,
                   nLoops>>

\* o.respMtx.Lock(); if o.running { Unlock; return }; go o.start(): Start
\* returns with respMtx locked, start() unlocks it
StartLock(c) ==
    /\ spc[c] = "lock" /\ MtxFree(respMtx)
    /\ spc' = [spc EXCEPT ![c] = "done"]
    /\ IF AlreadyRunning(running)
       THEN UNCHANGED <<respMtx, gpc, nLoops>>
       ELSE /\ nLoops < MaxLoops
            /\ respMtx' = "start"
            /\ gpc' = "handover"
            /\ nLoops' = nLoops + 1
    /\ UNCHANGED <<lifeRest, running, pending, requestMap, added, requestCh, dq, pc, req,
                   started, apc, areqs, entries, handed, queued, early, stored>>

\* o.requestMap <- o.pending: blocks while the slot is taken
HandOver ==
    /\ gpc = "handover" /\ ~requestMap.full
    /\ requestMap' = [full |-> TRUE, ids |-> pending]
    /\ handed' = Append(handed, pending)
    /\ gpc' = "set"
    /\ UNCHANGED <<lifeRest, running, pending, added, requestCh, dq, pc, req, started, respMtx,
                   spc, apc, areqs, entries, queued, early, stored, nLoops>>

\* o.pending = nil; o.running = true; o.respMtx.Unlock()
SetRunning ==
    /\ gpc = "set"
    /\ pending' = {}
    /\ running' = TRUE
    /\ respMtx' = "free"
    /\ gpc' = "workers"
    /\ UNCHANGED <<lifeRest, requestMap, added, requestCh, dq, pc, req, started, spc, apc,
                   areqs, entries, handed, queued, early, stored, nLoops>>

\* for i := 0; i < MaxConcurrentRequests; i++ { go o.runRequestWorker() }
RunWorkers ==
    /\ gpc = "workers"
    /\ IF StartMore(started, NumWorkers)
       THEN /\ started' = started + 1
            /\ UNCHANGED gpc
       ELSE /\ gpc' = "select"
            /\ UNCHANGED started
    /\ UNCHANGED <<lifeRest, running, pending, requestMap, added, requestCh, dq, pc, req,
                   respMtx, spc, apc, areqs, entries, handed, queued, early, stored, nLoops>>

\* case <-o.close of start(): tick.Stop(); return
LoopClose ==
    /\ gpc = "select" /\ closed
    /\ gpc' = "stopped"
    /\ UNCHANGED <<lifeRest, running, pending, requestMap, added, requestCh, dq, pc, req,
                   started, respMtx, spc, apc, areqs, entries, handed, queued, early, stored,
                   nLoops>>

\* case <-tick.C: under respMtx the entries older than MaxTaskTimeout are
\* deleted and those older than RefreshInterval are listed; the ages are
\* what time.Since says
LoopTick ==
    /\ gpc = "select" /\ MtxFree(respMtx)
    /\ \E drop \in SUBSET entries : \E re \in SUBSET (entries \ drop) :
          /\ entries' = entries \ drop
          /\ dq' = {[id |-> id, body |-> FALSE] : id \in re}
          /\ gpc' = IF re = {} THEN "select" ELSE "send"
    /\ UNCHANGED <<lifeRest, running, pending, requestMap, added, requestCh, pc, req, started,
                   respMtx, spc, apc, areqs, handed, queued, early, stored, nLoops>>

\* case reqs := <-o.requestMap
LoopTake ==
    /\ gpc = "select" /\ requestMap.full
    /\ requestMap' = [full |-> FALSE, ids |-> {}]
    /\ dq' = {[id |-> id, body |-> TRUE] : id \in requestMap.ids}
    /\ gpc' = IF requestMap.ids = {} THEN "select" ELSE "send"
    /\ UNCHANGED <<lifeRest, running, pending, added, requestCh, pc, req, started, respMtx,
                   spc, apc, areqs, entries, handed, queued, early, stored, nLoops>>

\* o.requestCh <- request{...} of both cases: a plain send, it blocks while
\* the channel is full
LoopSend ==
    /\ gpc = "send" /\ Len(requestCh) < RequestChCap(NumWorkers)
    /\ \E r \in dq :
          /\ requestCh' = Append(requestCh, r)
          /\ dq' = dq \ {r}
          /\ queued' = IF r.body THEN queued \cup {r.id} ELSE queued
          /\ gpc' = IF dq' = {} THEN "select" ELSE "send"
    /\ UNCHANGED <<lifeRest, running, pending, requestMap, added, pc, req, started, respMtx,
                   spc, apc, areqs, entries, handed, early, stored, nLoops>>

\* a goroutine calls AddRequests(reqs) with requests the chain reports for
\* the first time
AddCall(a, S) ==
    /\ apc[a] = "idle" /\ S # {} /\ S \cap added = {}
    /\ added' = added \cup S
    /\ areqs' = [areqs EXCEPT ![a] = S]
    /\ apc' = [apc EXCEPT ![a] = "lock"]
    /\ UNCHANGED <<lifeRest, running, pending, requestMap, requestCh, dq, pc, req, started,
                   respMtx, spc, gpc, entries, handed, queued, early, stored, nLoops>>

\* o.respMtx.Lock(); if !o.running { store in o.pending; Unlock; return }; Unlock
AddLock(a) ==
    /\ apc[a] = "lock" /\ MtxFree(respMtx)
    /\ IF ~running
       THEN /\ pending' = pending \cup areqs[a]
            /\ stored' = stored \cup areqs[a]
            /\ areqs' = [areqs EXCEPT ![a] = {}]
            /\ apc' = [apc EXCEPT ![a] = "idle"]
       ELSE /\ apc' = [apc EXCEPT ![a] = "try"]
            /\ UNCHANGED <<pending, stored, areqs>>
    /\ UNCHANGED <<lifeRest, running, requestMap, added, requestCh, dq, pc, req, started,
                   respMtx, spc, gpc, entries, handed, queued, early, nLoops>>

\* select { case o.requestMap <- reqs: default: ... }
AddTrySend(a) ==
    /\ apc[a] = "try"
    /\ IF ~requestMap.full
       THEN /\ requestMap' = [full |-> TRUE, ids |-> areqs[a]]
            /\ areqs' = [areqs EXCEPT ![a] = {}]
            /\ apc' = [apc EXCEPT ![a] = "idle"]
       ELSE /\ apc' = [apc EXCEPT ![a] = "take"]
            /\ UNCHANGED <<requestMap, areqs>>
    /\ UNCHANGED <<lifeRest, running, pending, added, requestCh, dq, pc, req, started, respMtx,
                   spc, gpc, entries, handed, queued, early, stored, nLoops>>

\* select { case old := <-o.requestMap: merge old into reqs; default: }
AddTakeOld(a) ==
    /\ apc[a] = "take"
    /\ IF requestMap.full
       THEN /\ areqs' = [areqs EXCEPT ![a] = @ \cup requestMap.ids]
            /\ requestMap' = [full |-> FALSE, ids |-> {}]
       ELSE UNCHANGED <<areqs, requestMap>>
    /\ apc' = [apc EXCEPT ![a] = "send"]
    /\ UNCHANGED <<lifeRest, running, pending, added, requestCh, dq, pc, req, started, respMtx,
                   spc, gpc, entries, handed, queued, early, stored, nLoops>>

\* o.requestMap <- reqs: a plain send, it blocks while the slot is taken
AddSend(a) ==
    /\ apc[a] = "send" /\ ~requestMap.full
    /\ requestMap' = [full |-> TRUE, ids |-> areqs[a]]
    /\ areqs' = [areqs EXCEPT ![a] = {}]
    /\ apc' = [apc EXCEPT ![a] = "idle"]
    /\ UNCHANGED <<lifeRest, running, pending, added, requestCh, dq, pc, req, started, respMtx,
                   spc, gpc, entries, handed, queued, early, stored, nLoops>>

\* RemoveRequests(ids), under respMtx from its first statement to its last
RemoveCall(S) ==
    /\ S # {} /\ S \subseteq added /\ MtxFree(respMtx)
    /\ IF ~running
       THEN /\ pending' = pending \ S
            /\ early' = early \cup (S \cap pending)
            /\ UNCHANGED entries
       ELSE /\ entries' = entries \ S
            /\ UNCHANGED <<pending, early>>
    /\ UNCHANGED <<lifeRest, running, requestMap, added, requestCh, dq, pc, req, started,
                   respMtx, spc, apc, areqs, gpc, handed, queued, stored, nLoops>>

\* case req := <-o.requestCh of runRequestWorker
WorkerRecv(w) ==
    /\ Launched(w) /\ pc[w] = "idle" /\ requestCh # <<>>
    /\ req' = [req EXCEPT ![w] = Head(requestCh)]
    /\ requestCh' = Tail(requestCh)
    /\ pc' = [pc EXCEPT ![w] = "run"]
    /\ UNCHANGED <<lifeRest, running, pending, requestMap, added, dq, started, respMtx, spc,
                   apc, areqs, gpc, entries, handed, queued, early, stored, nLoops>>

\* acc := o.getAccount(); if acc == nil { continue }; o.processRequest(...):
\* a request with a body gets its entry and the pass returns unless its
\* backup loop never ends; a request without a body returns
WorkerRun(w) ==
    /\ pc[w] = "run"
    /\ \E acc \in BOOLEAN, ends \in LoopResults :
          IF AccountIsNil(acc) \/ ~req[w].body
          THEN /\ pc' = [pc EXCEPT ![w] = "idle"]
               /\ req' = [req EXCEPT ![w] = NoReq]
               /\ UNCHANGED entries
          ELSE /\ entries' = entries \cup {req[w].id}
               /\ IF ends
                  THEN /\ pc' = [pc EXCEPT ![w] = "idle"]
                       /\ req' = [req EXCEPT ![w] = NoReq]
                  ELSE /\ pc' = [pc EXCEPT ![w] = "spin"]
                       /\ UNCHANGED req
    /\ UNCHANGED <<lifeRest, running, pending, requestMap, added, requestCh, dq, started,
                   respMtx, spc, apc, areqs, gpc, handed, queued, early, stored, nLoops>>

\* case <-o.close of runRequestWorker: return
WorkerClose(w) ==
    /\ Launched(w) /\ pc[w] = "idle" /\ closed
    /\ pc' = [pc EXCEPT ![w] = "exited"]
    /\ UNCHANGED <<lifeRest, running, pending, requestMap, added, requestCh, dq, req, started,
                   respMtx, spc, apc, areqs, gpc, entries, handed, queued, early, stored,
                   nLoops>>

NextLife ==
    \/ \E c \in Starters : StartCall(c)
    \/ \E c \in Starters : StartLock(c)
    \/ HandOver
    \/ SetRunning
    \/ RunWorkers
    \/ LoopClose
    \/ LoopTick
    \/ LoopTake
    \/ LoopSend
    \/ \E a \in Adders, S \in SUBSET Reqs : AddCall(a, S)
    \/ \E a \in Adders : AddLock(a)
    \/ \E a \in Adders : AddTrySend(a)
    \/ \E a \in Adders : AddTakeOld(a)
    \/ \E a \in Adders : AddSend(a)
    \/ \E S \in SUBSET Reqs : RemoveCall(S)
    \/ \E w \in Workers : WorkerRecv(w)
    \/ \E w \in Workers : WorkerRun(w)
    \/ \E w \in Workers : WorkerClose(w)
    \/ Shutdown

SpecLife == Init /\ [][NextLife]_vars

\* every goroutine that can take a step is scheduled; a select picks among
\* its ready cases at random, so a case that is ready again and again is
\* taken in the end, and a sender blocked on a channel gets the slot a
\* receive frees.  Calls of the API and Shutdown are up to the node.
SpecLifeFair ==
    /\ SpecLife
    /\ \A c \in Starters : WF_vars(StartLock(c))
    /\ WF_vars(HandOver) /\ WF_vars(SetRunning) /\ WF_vars(RunWorkers)
    /\ SF_vars(LoopClose) /\ SF_vars(LoopTake) /\ WF_vars(LoopSend)
    /\ \A a \in Adders : WF_vars(AddLock(a)) /\ WF_vars(AddTrySend(a))
    /\ \A a \in Adders : WF_vars(AddTakeOld(a)) /\ SF_vars(AddSend(a))
    /\ \A w \in Workers : SF_vars(WorkerRecv(w)) /\ WF_vars(WorkerRun(w))
    /\ \A w \in Workers : SF_vars(WorkerClose(w))

TypeOKLife ==
    /\ respMtx \in {"free", "start"}
    /\ \A c \in Starters : spc[c] \in {"idle", "lock", "done"}
    /\ \A a \in Adders : apc[a] \in {"idle", "lock", "try", "take", "send"}
    /\ gpc \in {"none", "handover", "set", "workers", "select", "send", "stopped"}
    /\ (gpc = "send") <=> (dq # {})
    /\ entries \subseteq Reqs /\ pending \subseteq Reqs /\ queued \subseteq Reqs
    /\ Len(requestCh) <= RequestChCap(NumWorkers)
    /\ (respMtx = "start") <=> (gpc \in {"handover", "set"})

(***************************************************************************)
(* Claims about the life cycle (SpecLife, SpecLifeFair).                   *)
(***************************************************************************)
\* C32: the send of the pending map in start() never finds the slot of
\* requestMap taken; while running is false nothing else is sent to
\* requestMap and no caller of AddRequests is past its locked section; every
\* id AddRequests stored before Start, unless RemoveRequests removed it, is in
\* the pending map until the hand-over and in the map handed over after it.
C32_HandOverNeverBlocks ==
    /\ gpc = "handover" => ~requestMap.full
    /\ ~running => (requestMap.full => gpc = "set")
    /\ ~running => \A a \in Adders : apc[a] \in {"idle", "lock"}
    /\ (stored \ early) \subseteq (IF handed = <<>> THEN pending ELSE handed[1])

\* C32 witness: start() handed over a map with a request stored before Start
\* and still holds respMtx, while a caller of AddRequests waits for the
\* mutex with another request
C32_Witness ==
    /\ gpc = "set" /\ respMtx = "start" /\ handed = <<{1}>> /\ requestMap.ids = {1}
    /\ \E a \in Adders : apc[a] = "lock" /\ areqs[a] = {2}

\* C33: however Start is called, one start() goroutine is launched, it
\* hands the pending map over once and starts MaxConcurrentRequests workers;
\* respMtx stays locked only from that Start to the unlock of start(), so a
\* Start that finds the service running leaves the mutex free.
C33_StartOnce ==
    /\ nLoops <= 1 /\ Len(handed) <= 1
    /\ started <= NumWorkers
    /\ gpc \in {"select", "send", "stopped"} => started = NumWorkers
    /\ respMtx = "start" => (~running /\ nLoops = 1 /\ gpc \in {"handover", "set"})
    /\ running => (nLoops = 1 /\ Len(handed) = 1)

\* C33 witness: every caller of Start returned, the second one after
\* running was set; the loop runs with its workers and the mutex is free
C33_Witness ==
    /\ \A c \in Starters : spc[c] = "done"
    /\ running /\ gpc = "select" /\ started = NumWorkers /\ respMtx = "free"

C35_ShutdownTerminates ==
    [](closed => <>(gpc \in {"none", "stopped"} /\ \A a \in Adders : apc[a] = "idle"))

(***************************************************************************)
(* The miner transactions of the consensus service (SpecTxx).  s.txx is a  *)
(* FIFO cache of CacheCap miner transactions (cacheMaxCapacity = 100 in    *)
(* the code).  The event loop goroutine makes a PrepareRequest in two      *)
(* steps, getVerifiedTx and broadcast; the goroutines of the peers run     *)
(* OnPayload in between, and each call with a PrepareRequest adds the      *)
(* miner transaction of the peer to the same cache.  A transaction is its  *)
(* hash; the nonce drawn by getVerifiedTx decides the hash.  What          *)
(* OnPayload does to the relay cache and to s.messages is followed in      *)
(* SpecCons.                                                               *)
(***************************************************************************)
PayloadTypes == {"PrepareRequest", "ChangeView"}

\* cp.Type() == payload.PrepareRequestType
IsPrepareRequest(t) == t = "PrepareRequest"

\* s.txx.Get(h) # nil
TxxGet(c, h0) == CacheHas(c, h0)

\* OnPayload of a payload that passes validatePayload and is not in the
\* relay cache, with s.dbft set: the switch on the type of the payload
OnPayloadSwitch(t, m) ==
    /\ ~txxPanic
    /\ txx' = IF IsPrepareRequest(t) THEN CacheAdd(txx, m) ELSE txx
    /\ UNCHANGED <<notTxxVars, minerTx, nRounds, txxPanic>>

\* getVerifiedTx: res[0] is a new miner transaction, s.txx.Add(res[0])
GetVerifiedTx(m) ==
    /\ ~txxPanic
    /\ minerTx = NoMinerTx
    /\ nRounds < MaxRounds
    /\ txx' = CacheAdd(txx, m)
    /\ minerTx' = m
    /\ nRounds' = nRounds + 1
    /\ UNCHANGED <<notTxxVars, txxPanic>>

\* broadcast of the PrepareRequest: *s.txx.Get(pr.transactionHashes[0]) with
\* a type assertion on the result, which panics on nil
BroadcastPrepareRequest ==
    /\ ~txxPanic
    /\ minerTx # NoMinerTx
    /\ IF TxxGet(txx, minerTx)
       THEN minerTx' = NoMinerTx /\ UNCHANGED txxPanic
       ELSE txxPanic' = TRUE /\ UNCHANGED minerTx
    /\ UNCHANGED <<notTxxVars, txx, nRounds>>

NextTxx ==
    \/ \E t \in PayloadTypes, m \in MinerTxs : OnPayloadSwitch(t, m)
    \/ \E m \in MinerTxs : GetVerifiedTx(m)
    \/ BroadcastPrepareRequest

SpecTxx == Init /\ [][NextTxx]_vars

TypeOKTxx ==
    /\ txx \in Seq(MinerTxs) /\ Len(txx) <= CacheCap
    /\ \A i, j \in 1 .. Len(txx) : i # j => txx[i] # txx[j]
    /\ minerTx \in MinerTxs \cup {NoMinerTx}
    /\ nRounds \in 0 .. MaxRounds
    /\ txxPanic \in BOOLEAN

====
